---- MODULE Spec2Model ----
(***************************************************************************)
(* The dotPipe language core of src/src/interpreter.py: the Lexer, the     *)
(* Parser, the Runtime (bindings and built-in registry) and the            *)
(* Interpreter (tree-walking evaluator), driven by interpret(source).      *)
(*                                                                         *)
(* Text is a sequence of one-character strings, so that the lexer's        *)
(* cursor arithmetic and the string built-ins are computed, not assumed.   *)
(* Positions are 0-based as in the source: src[p] is At(src, p).           *)
(***************************************************************************)
EXTENDS Integers, Sequences, FiniteSets, TLC

VARIABLES
    source,     \* Lexer.source
    lexpos,     \* Lexer.pos
    line,       \* Lexer.line
    col,        \* Lexer.col
    tokens,     \* Lexer.tokens, the list later handed to Interpreter(tokens)
    pos,        \* Parser.pos
    nodes,      \* the list `nodes` built by Parser.parse / walked by execute
    ip,         \* number of statements execute's for-loop has visited
    result,     \* execute's local `result`
    locals,     \* Runtime.locals
    globals,    \* Runtime.globals
    functions,  \* Runtime.functions
    built_in_functions,  \* Runtime.built_in_functions: name -> callable
    out,        \* lines written to standard output by print()
    raised,     \* the exception in flight (NoExc when none)
    ret,        \* the value returned by interpret / execute (Pending before)
    pc,         \* where control is
    trace,      \* history: the calls func(*args) made so far, in order
    heap,       \* the list objects created so far; a list value names one by its index
    hist,       \* history: the runtime as each executed statement left it
    lexed,      \* history: the token lists tokenize has returned, as returned
    peer        \* a second Interpreter instance (NoPeer when there is none)

vars == <<source, lexpos, line, col, tokens, pos, nodes, ip, result, locals,
          globals, functions, built_in_functions, out, raised, ret, pc, trace, heap, hist,
          lexed, peer>>

-----------------------------------------------------------------------------
(* Bounds of the model.                                                    *)

MaxSrcLen == 3
MaxArgs == 2
MaxPasses == 2
MaxStmts == 2

-----------------------------------------------------------------------------
(* Characters.                                                             *)

Digits == {"0", "1", "2", "3", "4", "5", "6", "7", "8", "9"}
Lower == {"a", "b", "c", "d", "e", "f", "g", "h", "i", "j", "k", "l", "m",
          "n", "o", "p", "q", "r", "s", "t", "u", "v", "w", "x", "y", "z"}
Upper == {"A", "B", "C", "D", "E", "F", "G", "H", "I", "J", "K", "L", "M",
          "N", "O", "P", "Q", "R", "S", "T", "U", "V", "W", "X", "Y", "Z"}
Alpha == Lower \cup Upper
Space == {" ", "\n", "\t", "\r"}
Symbols == {"{", "}", "[", "]", "(", ")", ":", ",", "-"}
NameChars == Alpha \cup Digits \cup {"_"}
PipeChars == Alpha \cup Digits \cup {"_", "-"}
NumChars == Digits \cup {"."}

At(src, p) == src[p + 1]
Slice(src, a, b) == SubSeq(src, a + 1, b)

RECURSIVE RunEnd(_, _, _)
RunEnd(src, p, Class) ==
    IF p < Len(src) /\ At(src, p) \in Class THEN RunEnd(src, p + 1, Class) ELSE p

-----------------------------------------------------------------------------
(* Lexer.  A lexer state is [pos, line, col, tokens].                      *)

Token(type_, value, ln, cl) == [type |-> type_, value |-> value, line |-> ln, col |-> cl]

RECURSIVE SkipWhitespace(_, _)
SkipWhitespace(src, lx) ==
    IF lx.pos < Len(src) /\ At(src, lx.pos) \in Space
    THEN SkipWhitespace(src,
            IF At(src, lx.pos) = "\n"
            THEN [lx EXCEPT !.line = @ + 1, !.col = 1, !.pos = @ + 1]
            ELSE [lx EXCEPT !.col = @ + 1, !.pos = @ + 1])
    ELSE lx

ReadPipe(src, lx) ==
    LET e == RunEnd(src, lx.pos + 1, PipeChars)
        func_name == Slice(src, lx.pos + 1, e)
        c == lx.col + 1 + Len(func_name)
    IN [lx EXCEPT !.pos = e, !.col = c,
           !.tokens = Append(@, Token("PIPE", func_name, lx.line, c - Len(func_name) - 1))]

\* The marker readers without the step over the marker character.
ReadMarkedNoStep(src, lx, marker) ==
    LET e == RunEnd(src, lx.pos, NameChars)
        var_name == Slice(src, lx.pos, e)
        c == lx.col + Len(var_name)
        t1 == Append(lx.tokens, Token(marker, <<>>, lx.line, lx.col))
    IN [lx EXCEPT !.pos = e, !.col = c,
           !.tokens = IF var_name # <<>>
                      THEN Append(t1, Token("IDENT", var_name, lx.line, c - Len(var_name)))
                      ELSE t1]

\* _read_variable and _read_assign differ only in the marker's type.
ReadMarked(src, lx, marker) ==
    LET e == RunEnd(src, lx.pos + 1, NameChars)
        var_name == Slice(src, lx.pos + 1, e)
        c == lx.col + 1 + Len(var_name)
        t1 == Append(lx.tokens, Token(marker, <<>>, lx.line, lx.col))
    IN [lx EXCEPT !.pos = e, !.col = c,
           !.tokens = IF var_name # <<>>
                      THEN Append(t1, Token("IDENT", var_name, lx.line, c - Len(var_name)))
                      ELSE t1]

ReadVariable(src, lx) == ReadMarked(src, lx, "VAR_GET")

ReadAssign(src, lx) == ReadMarked(src, lx, "ASSIGN")

\* After the marked name: an optional "." and a run over TailClass, emitted
\* as a token of type tailType when the run is not empty.
ReadAccess(src, lx, marker, TailClass, tailType) ==
    LET l1 == ReadMarked(src, lx, marker)
    IN IF l1.pos < Len(src) /\ At(src, l1.pos) = "."
       THEN LET e == RunEnd(src, l1.pos + 1, TailClass)
                tail == Slice(src, l1.pos + 1, e)
                c == l1.col + 1 + Len(tail)
            IN [l1 EXCEPT !.pos = e, !.col = c,
                   !.tokens = IF tail # <<>>
                              THEN Append(@, Token(tailType, tail, l1.line, c - Len(tail)))
                              ELSE @]
       ELSE l1

ReadObjectAccess(src, lx) == ReadAccess(src, lx, "OBJ_ACCESS", NameChars, "IDENT")

ReadArrayAccess(src, lx) == ReadAccess(src, lx, "ARR_ACCESS", Digits, "NUMBER")

Unescape(ch) ==
    CASE ch = "n" -> "\n"
      [] ch = "t" -> "\t"
      [] ch = "r" -> "\r"
      [] OTHER -> ch

\* The while loop of _read_string from position p with `value` so far:
\* returns [pos, col, value] at the closing quote or at the end of the text.
RECURSIVE StringBody(_, _, _, _)
StringBody(src, p, c, value) ==
    IF p < Len(src) /\ At(src, p) # "\""
    THEN IF At(src, p) = "\\" /\ p + 1 < Len(src)
         THEN StringBody(src, p + 2, c + 2, Append(value, Unescape(At(src, p + 1))))
         ELSE StringBody(src, p + 1, c + 1, Append(value, At(src, p)))
    ELSE [pos |-> p, col |-> c, value |-> value]

ReadString(src, lx) ==
    LET b == StringBody(src, lx.pos + 1, lx.col + 1, <<>>)
        p == IF b.pos < Len(src) THEN b.pos + 1 ELSE b.pos
        c == IF b.pos < Len(src) THEN b.col + 1 ELSE b.col
    IN [lx EXCEPT !.pos = p, !.col = c,
           !.tokens = Append(@, Token("STRING", b.value, lx.line, c - Len(b.value)))]

ReadNumber(src, lx) ==
    LET e == RunEnd(src, lx.pos, NumChars)
        value == Slice(src, lx.pos, e)
        c == lx.col + Len(value)
    IN [lx EXCEPT !.pos = e, !.col = c,
           !.tokens = Append(@, Token("NUMBER", value, lx.line, c - Len(value)))]

\* The reserved words matched whatever their case.
KeywordsAnyCase ==
    {<<"t", "r", "u", "e">>, <<"f", "a", "l", "s", "e">>, <<"n", "u", "l", "l">>,
     <<"T", "r", "u", "e">>, <<"F", "a", "l", "s", "e">>, <<"N", "U", "L", "L">>}

Keywords == {<<"t", "r", "u", "e">>, <<"f", "a", "l", "s", "e">>, <<"n", "u", "l", "l">>}

ReadIdentifier(src, lx) ==
    LET e == RunEnd(src, lx.pos, PipeChars)
        value == Slice(src, lx.pos, e)
        c == lx.col + Len(value)
        token_type == IF value \in Keywords THEN "KEYWORD" ELSE "IDENT"
    IN [lx EXCEPT !.pos = e, !.col = c,
           !.tokens = Append(@, Token(token_type, value, lx.line, c - Len(value)))]

\* One pass through the body of tokenize's while loop (pos < len(source)).
TokenizeBody(src, lx) ==
    LET l1 == SkipWhitespace(src, lx)
    IN IF l1.pos >= Len(src) THEN l1
       ELSE LET char == At(src, l1.pos)
            IN CASE char = "|" -> ReadPipe(src, l1)
                 [] char = "!" -> ReadVariable(src, l1)
                 [] char = "&" -> ReadAssign(src, l1)
                 [] char = "@" -> ReadObjectAccess(src, l1)
                 [] char = "#" -> ReadArrayAccess(src, l1)
                 [] char \in Symbols ->
                        [l1 EXCEPT !.tokens = Append(@, Token("SYMBOL", <<char>>, l1.line, l1.col)),
                                   !.pos = @ + 1, !.col = @ + 1]
                 [] char = "\"" -> ReadString(src, l1)
                 [] char \in Digits -> ReadNumber(src, l1)
                 [] char \in Alpha -> ReadIdentifier(src, l1)
                 [] OTHER -> [l1 EXCEPT !.pos = @ + 1, !.col = @ + 1]

-----------------------------------------------------------------------------
(* Runtime values (Python objects).  A float is the exact rational n/d in  *)
(* lowest terms with d > 0: two literals denote the same float exactly     *)
(* when they denote the same rational.  The floats the programs of the     *)
(* model compute (a quotient of integers, the root of a square) are kept   *)
(* as the rational itself, where Python keeps the nearest double.          *)

None == [t |-> "None"]
BoolV(b) == [t |-> "bool", b |-> b]
IntV(i) == [t |-> "int", i |-> i]
StrV(s) == [t |-> "str", s |-> s]

Abs(x) == IF x < 0 THEN -x ELSE x

RECURSIVE Gcd(_, _)
Gcd(a, b) == IF b = 0 THEN a ELSE Gcd(b, a % b)

FloatV(n, d) ==
    LET g == Gcd(Abs(n), d)
    IN [t |-> "float", n |-> n \div g, d |-> d \div g]

\* Unary minus on a number as Python computes it for int and float.
Neg(v) == IF v.t = "int" THEN IntV(-v.i) ELSE FloatV(-v.n, v.d)

-----------------------------------------------------------------------------
(* Exceptions.  str(e) is kept as text, as interpret prints it.            *)

NoExc == [kind |-> "none"]
Exc(kind, msg) == [kind |-> kind, msg |-> msg]

MsgFunctionNotFound ==
    <<"F", "u", "n", "c", "t", "i", "o", "n", " ", "n", "o", "t", " ",
      "f", "o", "u", "n", "d", ":", " ">>
MsgErrorCalling ==
    <<"E", "r", "r", "o", "r", " ", "c", "a", "l", "l", "i", "n", "g", " ">>
MsgError == <<"E", "r", "r", "o", "r", ":", " ">>
MsgCouldNotConvert ==
    <<"c", "o", "u", "l", "d", " ", "n", "o", "t", " ", "c", "o", "n", "v",
      "e", "r", "t", " ", "s", "t", "r", "i", "n", "g", " ", "t", "o", " ",
      "f", "l", "o", "a", "t", ":", " ", "'">>

-----------------------------------------------------------------------------
(* Numeric literals: int(text) and float(text) on a NUMBER token's text,   *)
(* which is a run over digits and "." that starts with a digit.            *)

DigitSeq == <<"0", "1", "2", "3", "4", "5", "6", "7", "8", "9">>

RECURSIVE Pow10(_)
Pow10(k) == IF k = 0 THEN 1 ELSE 10 * Pow10(k - 1)

RECURSIVE DigitsVal(_)
DigitsVal(s) ==
    IF s = <<>> THEN 0
    ELSE 10 * DigitsVal(SubSeq(s, 1, Len(s) - 1)) + (CHOOSE k \in 1..10 : DigitSeq[k] = s[Len(s)]) - 1

DotCount(s) == Cardinality({k \in 1..Len(s) : s[k] = "."})

\* [value, raised] of `float(text) if '.' in text else int(text)`.
ParseNumber(text) ==
    IF DotCount(text) = 0
    THEN [value |-> IntV(DigitsVal(text)), raised |-> NoExc]
    ELSE IF DotCount(text) = 1
    THEN LET dot == CHOOSE k \in 1..Len(text) : text[k] = "."
             whole == SubSeq(text, 1, dot - 1)
             frac == SubSeq(text, dot + 1, Len(text))
         IN [value |-> FloatV(DigitsVal(whole) * Pow10(Len(frac)) + DigitsVal(frac),
                             Pow10(Len(frac))),
             raised |-> NoExc]
    ELSE [value |-> None,
          raised |-> Exc("ValueError", MsgCouldNotConvert \o text \o <<"'">>)]

-----------------------------------------------------------------------------
(* Syntax tree nodes.                                                      *)

LiteralNode(value) == [kind |-> "Literal", value |-> value]
VariableNode(name) == [kind |-> "Variable", name |-> name]
PipeNode(func_name, args) == [kind |-> "Pipe", func_name |-> func_name, args |-> args]
AssignNode(var_name, value) == [kind |-> "Assign", var_name |-> var_name, value |-> value]

-----------------------------------------------------------------------------
(* Parser.  Every _parse_* returns [node, pos, raised]: the node built,    *)
(* the cursor afterwards, and the exception raised instead (if any).       *)

Current(toks, p) == IF p < Len(toks) THEN toks[p + 1] ELSE Token("EOF", <<>>, 0, 0)

IsAtEnd(toks, p) == Current(toks, p).type = "EOF"

Parsed(node, p) == [node |-> node, pos |-> p, raised |-> NoExc]

\* _parse_variable without its two advance() calls.
ParseVariableNoAdvance(toks, p) == Parsed(VariableNode(Current(toks, p + 1).value), p)

ParseVariable(toks, p) == Parsed(VariableNode(Current(toks, p + 1).value), p + 2)

RECURSIVE ParseExpression(_, _)
RECURSIVE ParsePipe(_, _)
RECURSIVE PipeArgs(_, _, _)

\* The while loop of _parse_pipe with the arguments gathered so far.
PipeArgs(toks, p, args) ==
    IF ~IsAtEnd(toks, p) /\ Current(toks, p).type \notin {"PIPE", "ASSIGN", "VAR_GET", "EOF"}
    THEN IF Current(toks, p).value = <<":">>
         THEN PipeArgs(toks, p + 1, args)
         ELSE LET e == ParseExpression(toks, p)
              IN IF e.raised # NoExc THEN [args |-> args, pos |-> e.pos, raised |-> e.raised]
                 ELSE PipeArgs(toks, e.pos, Append(args, e.node))
    ELSE [args |-> args, pos |-> p, raised |-> NoExc]

ParsePipe(toks, p) ==
    LET func_name == Current(toks, p).value
        a == PipeArgs(toks, p + 1, <<>>)
    IN [node |-> PipeNode(func_name, a.args), pos |-> a.pos, raised |-> a.raised]

ParseExpression(toks, p) ==
    LET token == Current(toks, p)
    IN CASE token.type = "STRING" -> Parsed(LiteralNode(StrV(token.value)), p + 1)
         [] token.type = "NUMBER" ->
                LET val == ParseNumber(token.value)
                IN [node |-> LiteralNode(val.value), pos |-> p + 1, raised |-> val.raised]
         [] token.type = "KEYWORD" ->
                Parsed(LiteralNode(IF token.value = <<"t", "r", "u", "e">> THEN BoolV(TRUE)
                                   ELSE IF token.value = <<"f", "a", "l", "s", "e">> THEN BoolV(FALSE)
                                   ELSE None), p + 1)
         [] token.type = "VAR_GET" -> ParseVariable(toks, p)
         [] token.type = "PIPE" -> ParsePipe(toks, p)
         [] token.type = "IDENT" -> Parsed(LiteralNode(StrV(token.value)), p + 1)
         [] token.type = "SYMBOL" /\ token.value = <<"-">> ->
                LET next_token == Current(toks, p + 1)
                IN IF next_token.type = "NUMBER"
                   THEN LET val == ParseNumber(next_token.value)
                        IN IF val.raised # NoExc
                           THEN [node |-> LiteralNode(None), pos |-> p + 2, raised |-> val.raised]
                           ELSE Parsed(LiteralNode(Neg(val.value)), p + 2)
                   ELSE Parsed(LiteralNode(IntV(-1)), p + 1)
         [] OTHER -> Parsed(LiteralNode(None), p + 1)

ParseAssign(toks, p) ==
    LET var_name == Current(toks, p + 1).value
        p2 == IF Current(toks, p + 2).value = <<":">> THEN p + 3 ELSE p + 2
        value == ParseExpression(toks, p2)
    IN [node |-> AssignNode(var_name, value.node), pos |-> value.pos, raised |-> value.raised]

\* One pass through the body of parse's while loop (not at end).
ParseBody(toks, p) ==
    CASE Current(toks, p).type = "PIPE" -> ParsePipe(toks, p)
      [] Current(toks, p).type = "ASSIGN" -> ParseAssign(toks, p)
      [] Current(toks, p).type = "VAR_GET" -> ParseVariable(toks, p)
      [] OTHER -> ParseExpression(toks, p)

-----------------------------------------------------------------------------
(* str(value), as print, concat and the string built-ins apply it.         *)

RECURSIVE NatToStr(_)
NatToStr(n) ==
    IF n < 10 THEN <<DigitSeq[n + 1]>>
    ELSE NatToStr(n \div 10) \o <<DigitSeq[(n % 10) + 1]>>

IntToStr(i) == IF i < 0 THEN <<"-">> \o NatToStr(-i) ELSE NatToStr(i)

RECURSIVE PadLeft(_, _)
PadLeft(s, k) == IF Len(s) >= k THEN s ELSE PadLeft(<<"0">> \o s, k)

\* The number of fractional digits of n/d: the least k >= 1 with d | 10^k.
RECURSIVE FracDigits(_, _)
FracDigits(d, k) == IF Pow10(k) % d = 0 THEN k ELSE FracDigits(d, k + 1)

FloatToStr(n, d) ==
    LET k == FracDigits(d, 1)
        scaled == (Abs(n) * Pow10(k)) \div d
    IN (IF n < 0 THEN <<"-">> ELSE <<>>)
       \o NatToStr(scaled \div Pow10(k)) \o <<".">> \o PadLeft(NatToStr(scaled % Pow10(k)), k)

StrOf(v) ==
    CASE v.t = "None" -> <<"N", "o", "n", "e">>
      [] v.t = "bool" -> IF v.b THEN <<"T", "r", "u", "e">> ELSE <<"F", "a", "l", "s", "e">>
      [] v.t = "int" -> IntToStr(v.i)
      [] v.t = "float" -> FloatToStr(v.n, v.d)
      [] v.t = "str" -> v.s

-----------------------------------------------------------------------------
(* Built-in functions (Runtime._setup_builtins).  Calling one yields       *)
(* [value, out, raised]: the value returned, the lines it printed and the  *)
(* exception it raised instead.  The text of an underlying Python error is *)
(* kept as a short tag.                                                    *)

F_log == <<"l", "o", "g">>
F_print == <<"p", "r", "i", "n", "t">>
F_add == <<"a", "d", "d">>
F_sub == <<"s", "u", "b">>
F_concat == <<"c", "o", "n", "c", "a", "t">>
F_uppercase == <<"u", "p", "p", "e", "r", "c", "a", "s", "e">>
F_lowercase == <<"l", "o", "w", "e", "r", "c", "a", "s", "e">>
F_replace == <<"r", "e", "p", "l", "a", "c", "e">>
F_isnull == <<"i", "s", "n", "u", "l", "l">>
F_mul == <<"m", "u", "l">>
F_div == <<"d", "i", "v">>
F_mod == <<"m", "o", "d">>
F_abs == <<"a", "b", "s">>
F_sqrt == <<"s", "q", "r", "t">>
F_max == <<"m", "a", "x">>
F_min == <<"m", "i", "n">>
F_length == <<"l", "e", "n", "g", "t", "h">>
F_tonumber == <<"t", "o", "n", "u", "m", "b", "e", "r">>
F_if == <<"i", "f">>
F_for == <<"f", "o", "r">>
F_while == <<"w", "h", "i", "l", "e">>

\* The keys of the dict _setup_builtins returns.
BuiltinNames ==
    {F_log, F_print, <<"i", "n", "p", "u", "t">>,
     F_add, F_sub, F_mul, F_div, F_mod,
     F_abs, F_sqrt, <<"p", "o", "w">>,
     <<"r", "o", "u", "n", "d">>, <<"f", "l", "o", "o", "r">>, <<"c", "e", "i", "l">>,
     F_max, F_min, <<"r", "a", "n", "d", "o", "m">>,
     F_concat, F_uppercase, F_lowercase,
     <<"s", "p", "l", "i", "t">>, <<"j", "o", "i", "n">>, F_length,
     <<"s", "u", "b", "s", "t", "r", "i", "n", "g">>, <<"t", "r", "i", "m">>, F_replace,
     <<"p", "u", "s", "h">>, <<"p", "o", "p">>, <<"s", "h", "i", "f", "t">>,
     <<"u", "n", "s", "h", "i", "f", "t">>, <<"s", "l", "i", "c", "e">>,
     <<"r", "e", "v", "e", "r", "s", "e">>, <<"s", "o", "r", "t">>,
     <<"m", "a", "p">>, <<"f", "i", "l", "t", "e", "r">>, <<"f", "i", "n", "d">>,
     <<"s", "o", "m", "e">>, <<"e", "v", "e", "r", "y">>,
     <<"k", "e", "y", "s">>, <<"v", "a", "l", "u", "e", "s">>, <<"g", "e", "t">>, <<"s", "e", "t">>,
     <<"t", "y", "p", "e", "o", "f">>, <<"t", "o", "s", "t", "r", "i", "n", "g">>,
     F_tonumber, <<"t", "o", "b", "o", "o", "l">>, F_isnull,
     <<"e", "q">>, <<"n", "e">>, <<"g", "t">>, <<"l", "t">>, <<"g", "t", "e">>, <<"l", "t", "e">>,
     <<"a", "n", "d">>, <<"o", "r">>, <<"n", "o", "t">>,
     F_if, F_for, F_while}

Returned(v) == [value |-> v, out |-> <<>>, raised |-> NoExc]
Failed(kind, tag) == [value |-> None, out |-> <<>>, raised |-> Exc(kind, tag)]

CauseArity == <<"a", "r", "i", "t", "y">>
CauseOperand == <<"o", "p", "e", "r", "a", "n", "d">>

RECURSIVE JoinStr(_, _)
JoinStr(vals, sep) ==
    IF vals = <<>> THEN <<>>
    ELSE IF Len(vals) = 1 THEN StrOf(vals[1])
    ELSE StrOf(vals[1]) \o sep \o JoinStr(Tail(vals), sep)

BuiltinLog(args) == [value |-> None, out |-> <<JoinStr(args, <<" ">>)>>, raised |-> NoExc]

\* int, float and bool are the operands Python's + and - accept beside 0.
IsNum(v) == v.t \in {"int", "float", "bool"}
NumN(v) == CASE v.t = "int" -> v.i [] v.t = "bool" -> (IF v.b THEN 1 ELSE 0) [] v.t = "float" -> v.n
NumD(v) == IF v.t = "float" THEN v.d ELSE 1
MkNum(isFloat, n, d) == IF isFloat THEN FloatV(n, d) ELSE IntV(n)
Plus(a, b) == MkNum(a.t = "float" \/ b.t = "float", NumN(a) * NumD(b) + NumN(b) * NumD(a), NumD(a) * NumD(b))
\* b - a in place of a - b.
MinusReversed(a, b) == MkNum(a.t = "float" \/ b.t = "float", NumN(b) * NumD(a) - NumN(a) * NumD(b), NumD(a) * NumD(b))
Minus(a, b) == MkNum(a.t = "float" \/ b.t = "float", NumN(a) * NumD(b) - NumN(b) * NumD(a), NumD(a) * NumD(b))

\* sum(args): 0 + args[0] + args[1] + ..., failing at the first operand
\* that + rejects.
RECURSIVE SumFrom(_, _)
SumFrom(acc, args) ==
    IF args = <<>> THEN Returned(acc)
    ELSE IF ~IsNum(args[1]) THEN Failed("TypeError", CauseOperand)
    ELSE SumFrom(Plus(acc, args[1]), Tail(args))

BuiltinAdd(args) == SumFrom(IntV(0), args)

BuiltinSub(args) ==
    IF Len(args) # 2 THEN Failed("TypeError", CauseArity)
    ELSE IF ~IsNum(args[1]) \/ ~IsNum(args[2]) THEN Failed("TypeError", CauseOperand)
    ELSE Returned(Minus(args[1], args[2]))

BuiltinConcat(args) == Returned(StrV(JoinStr(args, <<>>)))

\* Each lower-case ASCII letter with its upper-case letter.
CasePairs ==
    {<<"a", "A">>, <<"b", "B">>, <<"c", "C">>, <<"d", "D">>, <<"e", "E">>, <<"f", "F">>, <<"g",
     "G">>, <<"h", "H">>, <<"i", "I">>, <<"j", "J">>, <<"k", "K">>, <<"l", "L">>, <<"m", "M">>,
     <<"n", "N">>, <<"o", "O">>, <<"p", "P">>, <<"q", "Q">>, <<"r", "R">>, <<"s", "S">>, <<"t",
     "T">>, <<"u", "U">>, <<"v", "V">>, <<"w", "W">>, <<"x", "X">>, <<"y", "Y">>, <<"z", "Z">>}

\* str.upper() and str.lower() on the characters of the model: the ASCII
\* characters and two characters beyond ASCII, written by their code points:
\* "U+00DF", the sharp s, whose upper case is the two letters SS, and
\* "U+1E9E", the capital sharp s, whose lower case is the sharp s.
RECURSIVE ToUpper(_)
ToUpper(s) ==
    IF s = <<>> THEN <<>>
    ELSE (IF s[1] \in Lower THEN <<(CHOOSE p \in CasePairs : p[1] = s[1])[2]>>
          ELSE IF s[1] = "U+00DF" THEN <<"S", "S">>
          ELSE <<s[1]>>) \o ToUpper(Tail(s))

ToLower(s) ==
    [k \in 1..Len(s) |->
        IF s[k] \in Upper THEN (CHOOSE p \in CasePairs : p[2] = s[k])[1]
        ELSE IF s[k] = "U+1E9E" THEN "U+00DF"
        ELSE s[k]]

\* uppercase as `repr(s).upper()`: the quotes of the string's notation kept.
BuiltinUppercaseRepr(args) ==
    IF Len(args) # 1 THEN Failed("TypeError", CauseArity)
    ELSE Returned(StrV(<<"'">> \o ToUpper(StrOf(args[1])) \o <<"'">>))

BuiltinUppercase(args) ==
    IF Len(args) # 1 THEN Failed("TypeError", CauseArity)
    ELSE Returned(StrV(ToUpper(StrOf(args[1]))))

\* str.replace(old, new): every non-overlapping occurrence, left to right;
\* an empty `old` matches before every character and at the end.
RECURSIVE ReplaceAll(_, _, _)
ReplaceAll(s, old, new) ==
    IF old = <<>>
    THEN (IF s = <<>> THEN new ELSE new \o <<s[1]>> \o ReplaceAll(Tail(s), old, new))
    ELSE IF Len(s) < Len(old) THEN s
    ELSE IF SubSeq(s, 1, Len(old)) = old
         THEN new \o ReplaceAll(SubSeq(s, Len(old) + 1, Len(s)), old, new)
         ELSE <<s[1]>> \o ReplaceAll(Tail(s), old, new)

BuiltinReplace(args) ==
    IF Len(args) # 3 THEN Failed("TypeError", CauseArity)
    ELSE IF args[2].t # "str" \/ args[3].t # "str" THEN Failed("TypeError", CauseOperand)
    ELSE Returned(StrV(ReplaceAll(StrOf(args[1]), args[2].s, args[3].s)))

BuiltinIsnull(args) ==
    IF Len(args) # 1 THEN Failed("TypeError", CauseArity)
    ELSE Returned(BoolV(args[1].t = "None"))

\* bool(v).
Truthy(v) ==
    CASE v.t = "None" -> FALSE
      [] v.t = "bool" -> v.b
      [] v.t = "int" -> v.i # 0
      [] v.t = "float" -> v.n # 0
      [] v.t = "str" -> v.s # <<>>

\* v == 0, as div and mod test their divisor (False == 0 and 0.0 == 0).
IsZero(v) == IsNum(v) /\ NumN(v) = 0

\* a < b on numbers.
Less(a, b) == NumN(a) * NumD(b) < NumN(b) * NumD(a)

RECURSIVE Repeat(_, _)
Repeat(s, k) == IF k <= 0 THEN <<>> ELSE s \o Repeat(s, k - 1)

\* math.prod(args): 1 * args[0] * args[1] * ...  Numbers multiply, a str and
\* an int repeat the str.
RECURSIVE ProdFrom(_, _)
ProdFrom(acc, args) ==
    IF args = <<>> THEN Returned(acc)
    ELSE LET a == acc
             b == args[1]
             r == IF IsNum(a) /\ IsNum(b)
                  THEN Returned(MkNum(a.t = "float" \/ b.t = "float",
                                      NumN(a) * NumN(b), NumD(a) * NumD(b)))
                  ELSE IF a.t = "str" /\ b.t \in {"int", "bool"}
                  THEN Returned(StrV(Repeat(a.s, NumN(b))))
                  ELSE IF b.t = "str" /\ a.t \in {"int", "bool"}
                  THEN Returned(StrV(Repeat(b.s, NumN(a))))
                  ELSE Failed("TypeError", CauseOperand)
         IN IF r.raised # NoExc THEN r ELSE ProdFrom(r.value, Tail(args))

\* a % b for b # 0.  On integers the result has the sign of the divisor; a
\* str dividend is %-formatting, which fails for a str without a "%".
Remainder(a, b) ==
    CASE a.t \in {"int", "bool"} /\ b.t \in {"int", "bool"} ->
            Returned(IntV(IF NumN(b) > 0 THEN NumN(a) % NumN(b)
                          ELSE -((-NumN(a)) % (-NumN(b)))))
      [] \/ a.t \in {"None", "list"}
         \/ IsNum(a) /\ ~IsNum(b)
         \/ a.t = "str" /\ b.t # "list" /\ \A k \in 1..Len(a.s) : a.s[k] # "%" ->
            Failed("TypeError", CauseOperand)

\* mod as `lambda a, b: a % b`, without the test of the divisor.
BuiltinModUnguarded(args) ==
    IF Len(args) # 2 THEN Failed("TypeError", CauseArity)
    ELSE IF IsZero(args[2])
    THEN Failed("ZeroDivisionError", <<"m", "o", "d", "u", "l", "o", " ", "b", "y", " ",
                                       "z", "e", "r", "o">>)
    ELSE Remainder(args[1], args[2])

BuiltinMod(args) ==
    IF Len(args) # 2 THEN Failed("TypeError", CauseArity)
    ELSE IF IsZero(args[2]) THEN Returned(IntV(0))
    ELSE Remainder(args[1], args[2])

\* The root of a square.
Isqrt(k) == CHOOSE r \in 0..k : r * r = k

\* max(args) for wantMax, else min(args), with `best` the extreme so far:
\* the first of equal extremes is kept.  Numbers compare with numbers and
\* a str with an equal str; None compares with nothing, a str or a list
\* with nothing of another type.
RECURSIVE Extreme(_, _, _)
Extreme(best, args, wantMax) ==
    CASE args = <<>> -> Returned(best)
      [] args # <<>> /\ IsNum(best) /\ IsNum(args[1]) ->
            Extreme(IF (IF wantMax THEN Less(best, args[1]) ELSE Less(args[1], best))
                    THEN args[1] ELSE best, Tail(args), wantMax)
      [] args # <<>> /\ best.t = "str" /\ args[1] = best -> Extreme(best, Tail(args), wantMax)
      [] args # <<>> /\ (IsNum(best) # IsNum(args[1]) \/ "None" \in {best.t, args[1].t}
                         \/ (~IsNum(best) /\ best.t # args[1].t)) ->
            Failed("TypeError", CauseOperand)

\* float(text).  Decided here for two kinds of text: one of digits, "."
\* and signs only, and one with a character no spelling of a float has.
FloatOfStr(s) ==
    LET FloatChars ==
            NumChars \cup Space
            \cup {"-", "+", "_", "e", "E", "i", "n", "f", "t", "y", "a",
                  "I", "N", "F", "T", "Y", "A"}
        body == IF s # <<>> /\ s[1] \in {"-", "+"} THEN Tail(s) ELSE s
        plain == \A k \in 1..Len(s) : s[k] \in NumChars \cup {"-", "+"}
        ok == /\ \A k \in 1..Len(body) : body[k] \in NumChars
              /\ DotCount(body) <= 1
              /\ \E k \in 1..Len(body) : body[k] \in Digits
        dot == IF DotCount(body) = 1 THEN CHOOSE k \in 1..Len(body) : body[k] = "."
               ELSE Len(body) + 1
        whole == SubSeq(body, 1, dot - 1)
        frac == SubSeq(body, dot + 1, Len(body))
        v == FloatV(DigitsVal(whole) * Pow10(Len(frac)) + DigitsVal(frac), Pow10(Len(frac)))
    IN CASE plain /\ ok -> Returned(IF s[1] = "-" THEN Neg(v) ELSE v)
         [] (plain /\ ~ok) \/ (\E k \in 1..Len(s) : s[k] \notin FloatChars) ->
               Failed("ValueError", MsgCouldNotConvert \o s \o <<"'">>)

\* No dotPipe value is callable, so _builtin_if returns the branch itself.
BuiltinIf(args) ==
    IF Len(args) \notin {2, 3} THEN Failed("TypeError", CauseArity)
    ELSE IF Truthy(args[1]) THEN Returned(args[2])
    ELSE Returned(IF Len(args) = 3 THEN args[3] ELSE None)

\* A list value: the list object at index ref of the heap.
ListV(ref) == [t |-> "list", ref |-> ref]

\* What a built-in that creates or changes a list object yields.
OnHeap(v, hp) == [value |-> v, out |-> <<>>, raised |-> NoExc, heap |-> hp]

\* _builtin_for: a new list of one None per item, func not being callable.
BuiltinFor(args, hp) ==
    IF Len(args) # 2
    THEN [value |-> None, out |-> <<>>, raised |-> Exc("TypeError", CauseArity), heap |-> hp]
    ELSE LET items == IF args[1].t = "list" THEN hp[args[1].ref] ELSE <<args[1]>>
         IN OnHeap(ListV(Len(hp) + 1), Append(hp, [k \in 1..Len(items) |-> None]))

\* The registry's keys for the list built-ins.
ListNames ==
    [push |-> <<"p", "u", "s", "h">>, pop |-> <<"p", "o", "p">>,
     shift |-> <<"s", "h", "i", "f", "t">>, unshift |-> <<"u", "n", "s", "h", "i", "f", "t">>]

\* The list built-ins working on a copy: push as `arr + [val]`, pop as
\* `arr[:-1]` and so on, the list passed in left as it was.
ListBuiltinOnCopy(name, args, hp) ==
    LET arr == args[1]
        items == hp[arr.ref]
        copy == ListV(Len(hp) + 1)
    IN CASE name \in {ListNames.push, ListNames.unshift} /\ Len(args) = 2 /\ arr.t = "list" ->
               OnHeap(copy, Append(hp, IF name = ListNames.push THEN Append(items, args[2])
                                       ELSE <<args[2]>> \o items))
         [] name \in {ListNames.pop, ListNames.shift} /\ Len(args) = 1 /\ arr.t = "list" ->
               IF items = <<>> THEN OnHeap(None, hp)
               ELSE IF name = ListNames.pop
               THEN OnHeap(items[Len(items)], Append(hp, SubSeq(items, 1, Len(items) - 1)))
               ELSE OnHeap(items[1], Append(hp, Tail(items)))
         [] name \in {ListNames.pop, ListNames.shift} /\ Len(args) = 1 /\ arr.t # "list"
            /\ ~Truthy(arr) ->
               OnHeap(None, hp)

\* push, pop, shift and unshift:
\*   push    `arr.append(val) or arr`       pop    `arr.pop() if arr else None`
\*   unshift `arr.insert(0, val) or arr`    shift  `arr.pop(0) if arr else None`
\* on a list object, and pop and shift also on a value that is false.
ListBuiltin(name, args, hp) ==
    LET arr == args[1]
        items == hp[arr.ref]
    IN CASE name \in {ListNames.push, ListNames.unshift} /\ Len(args) = 2 /\ arr.t = "list" ->
               OnHeap(arr, [hp EXCEPT ![arr.ref] = IF name = ListNames.push
                                                  THEN Append(items, args[2])
                                                  ELSE <<args[2]>> \o items])
         [] name \in {ListNames.pop, ListNames.shift} /\ Len(args) = 1 /\ arr.t = "list" ->
               IF items = <<>> THEN OnHeap(None, hp)
               ELSE IF name = ListNames.pop
               THEN OnHeap(items[Len(items)],
                           [hp EXCEPT ![arr.ref] = SubSeq(items, 1, Len(items) - 1)])
               ELSE OnHeap(items[1], [hp EXCEPT ![arr.ref] = Tail(items)])
         [] name \in {ListNames.pop, ListNames.shift} /\ Len(args) = 1 /\ arr.t # "list"
            /\ ~Truthy(arr) ->
               OnHeap(None, hp)

\* Control that does not come back from a call.
Hang == [kind |-> "hang"]

\* _builtin_while: the condition is a value, not a callable, and is tested
\* again unchanged after every pass; when it is true the loop never ends.
BuiltinWhile(args) ==
    IF Len(args) # 2 THEN Failed("TypeError", CauseArity)
    ELSE IF Truthy(args[1]) THEN [value |-> None, out |-> <<>>, raised |-> Hang]
    ELSE Returned(None)

\* func(*args) for the registry's entry under `name`.
CallBuiltin(name, args) ==
    CASE name \in {F_log, F_print} -> BuiltinLog(args)
      [] name = F_add -> BuiltinAdd(args)
      [] name = F_sub -> BuiltinSub(args)
      [] name = F_mul -> IF args = <<>> THEN Returned(IntV(0)) ELSE ProdFrom(IntV(1), args)
      [] name = F_div ->
            \* a / b is true division: the result is a float, here the exact
            \* quotient, which Python rounds to the nearest double.
            IF Len(args) # 2 THEN Failed("TypeError", CauseArity)
            ELSE IF IsZero(args[2]) THEN Returned(IntV(0))
            ELSE IF ~IsNum(args[1]) \/ ~IsNum(args[2]) THEN Failed("TypeError", CauseOperand)
            ELSE LET n == NumN(args[1]) * NumD(args[2])
                     d == NumD(args[1]) * NumN(args[2])
                 IN Returned(IF d < 0 THEN FloatV(-n, -d) ELSE FloatV(n, d))
      [] name = F_mod -> BuiltinMod(args)
      [] name = F_abs ->
            IF Len(args) # 1 THEN Failed("TypeError", CauseArity)
            ELSE IF ~IsNum(args[1]) THEN Failed("TypeError", CauseOperand)
            ELSE LET n == NumN(args[1])
                 IN Returned(MkNum(args[1].t = "float", IF n < 0 THEN -n ELSE n, NumD(args[1])))
      [] name = F_sqrt ->
            IF Len(args) # 1 THEN Failed("TypeError", CauseArity)
            ELSE IF ~IsNum(args[1]) THEN Failed("TypeError", CauseOperand)
            ELSE IF NumN(args[1]) < 0 THEN Failed("ValueError", <<"m", "a", "t", "h", " ", "d", "o", "m", "a", "i", "n", " ",
                                           "e", "r", "r", "o", "r">>)
            ELSE Returned(FloatV(Isqrt(NumN(args[1])), Isqrt(NumD(args[1]))))
      [] name = F_max -> IF args = <<>> THEN Returned(IntV(0)) ELSE Extreme(args[1], Tail(args), TRUE)
      [] name = F_min -> IF args = <<>> THEN Returned(IntV(0)) ELSE Extreme(args[1], Tail(args), FALSE)
      [] name = F_concat -> BuiltinConcat(args)
      [] name = F_uppercase -> BuiltinUppercase(args)
      [] name = F_lowercase ->
            IF Len(args) # 1 THEN Failed("TypeError", CauseArity)
            ELSE Returned(StrV(ToLower(StrOf(args[1]))))
      [] name = F_length ->
            (CASE Len(args) # 1 -> Failed("TypeError", CauseArity)
               [] Len(args) = 1 /\ args[1].t = "str" -> Returned(IntV(Len(args[1].s)))
               [] Len(args) = 1 /\ args[1].t \in {"None", "bool", "int", "float"} ->
                     Failed("TypeError", CauseOperand))
      [] name = F_replace -> BuiltinReplace(args)
      [] name = F_tonumber ->
            IF Len(args) # 1 THEN Failed("TypeError", CauseArity)
            ELSE IF args[1].t = "str" THEN FloatOfStr(args[1].s)
            ELSE Returned(args[1])
      [] name = F_isnull -> BuiltinIsnull(args)
      [] name = F_if -> BuiltinIf(args)
      [] name = F_while -> BuiltinWhile(args)

-----------------------------------------------------------------------------
(* Interpreter: node.accept(self).  The runtime threaded through is        *)
(* rt = [locals, globals, functions, built_in_functions, out, trace,       *)
(* heap]; every visit returns [value, rt, raised].                         *)

\* The callable _setup_builtins registers under a name.
Function(name) == [t |-> "function", name |-> name]

Put(m, k, v) == [x \in (DOMAIN m) \cup {k} |-> IF x = k THEN v ELSE m[x]]

Visited(v, rt) == [value |-> v, rt |-> rt, raised |-> NoExc]
Raise(e, rt) == [value |-> None, rt |-> rt, raised |-> e]

RECURSIVE Accept(_, _)
RECURSIVE EvalArgs(_, _, _)

VisitLiteral(node, rt) == Visited(node.value, rt)

\* visit_variable creating the binding it did not find.
VisitVariableBinds(node, rt) ==
    IF node.name \in DOMAIN rt.locals THEN Visited(rt.locals[node.name], rt)
    ELSE IF node.name \in DOMAIN rt.globals THEN Visited(rt.globals[node.name], rt)
    ELSE Visited(None, [rt EXCEPT !.locals = Put(@, node.name, None)])

VisitVariable(node, rt) ==
    IF node.name \in DOMAIN rt.locals THEN Visited(rt.locals[node.name], rt)
    ELSE IF node.name \in DOMAIN rt.globals THEN Visited(rt.globals[node.name], rt)
    ELSE Visited(None, rt)

\* visit_assign rebinding the environment to the one binding it makes.
VisitAssignClears(node, rt) ==
    LET v == Accept(node.value, rt)
    IN IF v.raised # NoExc THEN v
       ELSE Visited(v.value, [v.rt EXCEPT !.locals = Put(<<>>, node.var_name, v.value)])

\* visit_assign storing under a registered name in the registry.
VisitAssignShadows(node, rt) ==
    LET v == Accept(node.value, rt)
    IN IF v.raised # NoExc THEN v
       ELSE IF node.var_name \in DOMAIN v.rt.built_in_functions
       THEN Visited(v.value, [v.rt EXCEPT !.built_in_functions = Put(@, node.var_name, v.value)])
       ELSE Visited(v.value, [v.rt EXCEPT !.locals = Put(@, node.var_name, v.value)])

\* visit_assign storing the binding in globals.
VisitAssignGlobal(node, rt) ==
    LET v == Accept(node.value, rt)
    IN IF v.raised # NoExc THEN v
       ELSE Visited(v.value, [v.rt EXCEPT !.globals = Put(@, node.var_name, v.value)])

\* visit_assign returning the value without storing it.
VisitAssignNoStore(node, rt) == Accept(node.value, rt)

VisitAssign(node, rt) ==
    LET v == Accept(node.value, rt)
    IN IF v.raised # NoExc THEN v
       ELSE Visited(v.value, [v.rt EXCEPT !.locals = Put(@, node.var_name, v.value)])

\* The arguments evaluated last to first.
EvalArgsRightToLeft(args, rt, acc) ==
    IF args = <<>> THEN [values |-> acc, rt |-> rt, raised |-> NoExc]
    ELSE LET v == Accept(args[Len(args)], rt)
         IN IF v.raised # NoExc THEN [values |-> acc, rt |-> v.rt, raised |-> v.raised]
            ELSE EvalArgs(SubSeq(args, 1, Len(args) - 1), v.rt, <<v.value>> \o acc)

\* [arg.accept(self) for arg in node.args]: left to right, stopping at the
\* first argument that raises.
EvalArgs(args, rt, acc) ==
    IF args = <<>> THEN [values |-> acc, rt |-> rt, raised |-> NoExc]
    ELSE LET v == Accept(args[1], rt)
         IN IF v.raised # NoExc THEN [values |-> acc, rt |-> v.rt, raised |-> v.raised]
            ELSE EvalArgs(Tail(args), v.rt, Append(acc, v.value))

\* func(*args) inside the try of visit_pipe.  A user function is a callable
\* the runtime holds; the callables of this program are the registry's.
Invoke(func_name, args, rt) ==
    LET func == IF func_name \in DOMAIN rt.built_in_functions
                THEN rt.built_in_functions[func_name]
                ELSE rt.functions[func_name]
        \* a built-in that touches no list leaves the heap as it is
        Pure(r) == [value |-> r.value, out |-> r.out, raised |-> r.raised, heap |-> rt.heap]
        \* what visit_pipe makes of the call's outcome r
        Outcome(r) ==
            LET rt2 == [rt EXCEPT !.out = @ \o r.out,
                                  !.heap = r.heap,
                                  !.trace = Append(@, [func_name |-> func_name, args |-> args])]
            IN IF r.raised = NoExc THEN Visited(r.value, rt2)
               ELSE IF r.raised.kind = "TypeError"
               THEN Raise(Exc("TypeError", MsgErrorCalling \o func_name \o <<":", " ">>
                                           \o r.raised.msg), rt2)
               ELSE Raise(r.raised, rt2)
    IN Outcome(IF func.name = F_for THEN BuiltinFor(args, rt.heap)
               ELSE IF func.name \in {ListNames[k] : k \in DOMAIN ListNames}
               THEN ListBuiltin(func.name, args, rt.heap)
               ELSE Pure(CallBuiltin(func.name, args)))

\* visit_pipe yielding null for a name it does not find.
VisitPipeNullOnUnknown(node, rt) ==
    IF node.func_name \notin DOMAIN rt.built_in_functions
       /\ node.func_name \notin DOMAIN rt.functions
    THEN Visited(None, rt)
    ELSE LET a == EvalArgs(node.args, rt, <<>>)
         IN IF a.raised # NoExc THEN Raise(a.raised, a.rt)
            ELSE Invoke(node.func_name, a.values, a.rt)

\* visit_pipe evaluating the arguments before it looks the name up.
VisitPipeArgsFirst(node, rt) ==
    LET a == EvalArgs(node.args, rt, <<>>)
    IN IF a.raised # NoExc THEN Raise(a.raised, a.rt)
       ELSE IF node.func_name \notin DOMAIN rt.built_in_functions
               /\ node.func_name \notin DOMAIN rt.functions
       THEN Raise(Exc("NameError", MsgFunctionNotFound \o node.func_name), a.rt)
       ELSE Invoke(node.func_name, a.values, a.rt)

\* visit_pipe treating if as control flow: the condition evaluated, then
\* only the branch it selects.
VisitPipeLazyIf(node, rt) ==
    IF node.func_name \notin DOMAIN rt.built_in_functions
       /\ node.func_name \notin DOMAIN rt.functions
    THEN Raise(Exc("NameError", MsgFunctionNotFound \o node.func_name), rt)
    ELSE IF node.func_name = F_if /\ Len(node.args) \in {2, 3}
    THEN LET c == Accept(node.args[1], rt)
         IN IF c.raised # NoExc THEN c
            ELSE IF Truthy(c.value) THEN Accept(node.args[2], c.rt)
            ELSE IF Len(node.args) = 3 THEN Accept(node.args[3], c.rt)
            ELSE Visited(None, c.rt)
    ELSE LET a == EvalArgs(node.args, rt, <<>>)
         IN IF a.raised # NoExc THEN Raise(a.raised, a.rt)
            ELSE Invoke(node.func_name, a.values, a.rt)

VisitPipe(node, rt) ==
    IF node.func_name \notin DOMAIN rt.built_in_functions
       /\ node.func_name \notin DOMAIN rt.functions
    THEN Raise(Exc("NameError", MsgFunctionNotFound \o node.func_name), rt)
    ELSE LET a == EvalArgs(node.args, rt, <<>>)
         IN IF a.raised # NoExc THEN Raise(a.raised, a.rt)
            ELSE Invoke(node.func_name, a.values, a.rt)

Accept(node, rt) ==
    CASE node.kind = "Literal" -> VisitLiteral(node, rt)
      [] node.kind = "Variable" -> VisitVariable(node, rt)
      [] node.kind = "Assign" -> VisitAssign(node, rt)
      [] node.kind = "Pipe" -> VisitPipe(node, rt)

-----------------------------------------------------------------------------
(* Program texts given to interpret(source).                               *)

\* Every text of at most MaxSrcLen characters over an alphabet.
TextsOver(alphabet) == UNION {[1..n -> alphabet] : n \in 0..MaxSrcLen}

\* Literals as [text, value]: the text as written in a program and the
\* value it denotes.
LitNats == {0, 7, 42, 105}

IntLiterals == {[text |-> NatToStr(n), value |-> IntV(n)] : n \in LitNats}
FracLiterals ==
    {[text |-> NatToStr(w) \o <<".">> \o f.digits, value |-> FloatV(w * f.d + f.n, f.d)] :
        w \in LitNats,
        f \in {[digits |-> <<"5">>, n |-> 1, d |-> 2], [digits |-> <<"2", "5">>, n |-> 1, d |-> 4],
               [digits |-> <<"0">>, n |-> 0, d |-> 1], [digits |-> <<>>, n |-> 0, d |-> 1],
               [digits |-> <<"1", "2", "5">>, n |-> 1, d |-> 8]}}
NegLiterals ==
    {[text |-> <<"-">> \o l.text, value |-> Neg(l.value)] : l \in IntLiterals \cup FracLiterals}
Literals ==
    IntLiterals \cup FracLiterals \cup NegLiterals
    \cup
    {[text |-> <<"\"">> \o b \o <<"\"">>, value |-> StrV(b)] :
        b \in {<<>>, <<"h", "i">>, <<"a", " ", "b">>, <<":">>, <<"1">>, <<"|", "x">>,
               <<"t", "r", "u", "e">>, <<"!", "x">>}}
    \cup {[text |-> <<"\"", "a", "\\", "n", "b", "\"">>, value |-> StrV(<<"a", "\n", "b">>)],
          [text |-> <<"\"", "\\", "\"", "\"">>, value |-> StrV(<<"\"">>)],
          [text |-> <<"\"", "\\", "\\", "\"">>, value |-> StrV(<<"\\">>)],
          [text |-> <<"\"", "\\", "q", "\\", "t", "\"">>, value |-> StrV(<<"q", "\t">>)]}
    \cup
    {[text |-> w, value |-> StrV(w)] :
        w \in {<<"w", "o", "r", "d">>, <<"a", "-", "b">>, <<"T", "r", "u", "e">>,
               <<"N", "U", "L", "L">>, <<"x", "1">>, <<"x">>}}
    \cup {[text |-> <<"t", "r", "u", "e">>, value |-> BoolV(TRUE)],
          [text |-> <<"f", "a", "l", "s", "e">>, value |-> BoolV(FALSE)],
          [text |-> <<"n", "u", "l", "l">>, value |-> None]}

\* A few literals of each kind, for programs that assign twice.
FewLiterals ==
    {l \in Literals : l.text \in {<<"7">>, <<"-", "4", "2">>, <<"0", ".", "5">>, <<"\"", "h", "i", "\"">>,
                                  <<"n", "u", "l", "l">>, <<"w", "o", "r", "d">>}}

V_x == <<"x">>
V_y == <<"y">>
V_sum == <<"s", "u", "m">>

\* &x:<v> then !x
AssignThenRead(text) == <<"&", "x", ":">> \o text \o <<"\n", "!", "x">>
\* &x:<v1> then &x:<v2> then !x
AssignTwiceThenRead(t1, t2) == <<"&", "x", ":">> \o t1 \o <<"\n">> \o AssignThenRead(t2)
\* &x:a, &y:b, &sum:|add:!x:!y
SumOperands == {-3, 0, 8, 42}
SumProgram(a, b) ==
    <<"&", "x", ":">> \o IntToStr(a) \o <<"\n", "&", "y", ":">> \o IntToStr(b) \o <<"\n">>
    \o <<"&", "s", "u", "m", ":", "|", "a", "d", "d", ":", "!", "x", ":", "!", "y">>

SrcUndefined ==
    <<"!", "u", "n", "d", "e", "f", "i", "n", "e", "d", "v", "a", "r">>
SrcReplace ==
    <<"&", "t", "e", "x", "t", ":", "\"", "h", "e", "l", "l", "o", " ", "w", "o", "r",
      "l", "d", "\"", "\n", "|", "r", "e", "p", "l", "a", "c", "e", ":", "!", "t", "e",
      "x", "t", ":", "\"", "w", "o", "r", "l", "d", "\"", ":", "\"", "d", "o", "t", "l",
      "a", "n", "g", "\"">>
SrcLate ==
    <<"!", "x", "\n", "&", "x", ":", "5", "\n", "!", "x">>

\* Further programs, each with what it is there for.
Scenarios ==
    {\* the test suite's sum
     <<"|", "a", "d", "d", ":", "5", ":", "3">>,
     <<"|", "u", "p", "p", "e", "r", "c", "a", "s", "e", ":", "\"", "h", "e", "l", "l",
       "o", "\"">>,
     \* an unregistered name
     <<"|", "f", "r", "o", "b", "n", "i", "c", "a", "t", "e", ":", "1">>,
     \* a failure between effects
     <<"&", "a", ":", "1", "\n", "|", "l", "o", "g", ":", "\"", "a", "\"", "\n", "|",
       "z", "z", ":", "1", "\n", "&", "q", ":", "2", "\n", "|", "l", "o", "g", ":", "\"",
       "b", "\"">>,
     \* a failure inside an assignment
     <<"|", "l", "o", "g", ":", "\"", "x", "\"", " ", "7", "\n", "&", "b", ":", "|", "s",
       "u", "b", ":", "1", "\n", "&", "q", ":", "2">>,
     \* access markers and stray characters
     <<"@", "o", "b", "j", ".", "p", "r", "o", "p", " ", "#", "a", "r", "r", ".", "1",
       "2", " ", "{", " ", "$", " ", "}">>,
     \* a malformed number, negated
     <<"&", "n", ":", "-", "1", ".", "2", ".", "3">>,
     <<"-", "1", ".", "2", ".", "3">>,
     \* a call written after a call's arguments
     <<"|", "c", "o", "n", "c", "a", "t", ":", "a", ":", "|", "l", "o", "g", ":", "b">>,
     \* a loop on a true operand, assigned
     <<"&", "x", ":", "|", "w", "h", "i", "l", "e", ":", "1", ":", "2", "\n", "|", "l",
       "o", "g", ":", "a">>,
     \* a loop on a true operand between effects
     <<"|", "l", "o", "g", ":", "a", "\n", "|", "w", "h", "i", "l", "e", ":", "t", "r",
       "u", "e", ":", "1", "\n", "|", "l", "o", "g", ":", "b">>,
     \* a variable named as a built-in
     <<"&", "a", "d", "d", ":", "1", "\n", "|", "a", "d", "d", ":", "2", ":", "3", "\n",
       "!", "a", "d", "d">>,
     \* every kind of statement
     <<"&", "x", ":", "1", "\n", "7", "\n", "!", "x", "\n", "!", "n", "n", "\n", "|",
       "l", "o", "g", ":", "\"", "h", "i", "\"", "\n", "&", "y", ":", "2", "\n", "|",
       "c", "o", "n", "c", "a", "t", ":", "a", ":", "b">>,
     \* a built-in's own failure between assignments
     <<"&", "x", ":", "5", "\n", "|", "s", "q", "r", "t", ":", "-", "1", "\n", "&", "y",
       ":", "1">>,
     <<"&", "x", ":", "|", "t", "o", "n", "u", "m", "b", "e", "r", ":", "\"", "1", "x",
       "\"", "\n", "!", "x">>,
     \* a call written in argument position
     <<"|", "a", "d", "d", ":", "1", ":", "|", "m", "u", "l", ":", "2", ":", "3">>,
     \* a colon as a string argument
     <<"|", "c", "o", "n", "c", "a", "t", ":", "a", ":", "\"", ":", "\"", ":", "b">>,
     \* the test suite's absolute value
     <<"|", "a", "b", "s", ":", "-", "5">>,
     \* a bare word that is also a bound name
     <<"&", "a", ":", "1", "\n", "a">>,
     \* the reserved words, and other spellings of them
     <<"t", "r", "u", "e">>, <<"f", "a", "l", "s", "e">>, <<"n", "u", "l", "l">>,
     <<"T", "r", "u", "e">>, <<"N", "U", "L", "L">>, <<"F", "a", "l", "s", "e">>,
     \* a variable named as the unregistered function called after it
     <<"&", "z", "z", ":", "1", "\n", "!", "z", "z", "\n", "|", "z", "z", ":", "1">>,
     \* a string literal over two lines, then a word
     <<"\"", "a", "\n", "b", "\"", " ", "c">>}

\* |name:arg:arg...
RECURSIVE CallText(_, _)
CallText(name, args) ==
    IF args = <<>> THEN <<"|">> \o name
    ELSE CallText(name, SubSeq(args, 1, Len(args) - 1)) \o <<":">> \o args[Len(args)]

\* Every modelled built-in on every list of at most MaxArgs of these
\* arguments: 4, 0, -3, "ab", null, true.
ArgTexts ==
    {<<"4">>, <<"0">>, <<"-", "3">>, <<"\"", "a", "b", "\"">>, <<"n", "u", "l", "l">>,
     <<"t", "r", "u", "e">>}
CallPrograms ==
    {CallText(f, a) :
        f \in {F_log, F_add, F_sub, F_mul, F_div, F_mod, F_abs, F_sqrt, F_max, F_min,
               F_concat, F_uppercase, F_length, F_replace, F_tonumber, F_isnull, F_if, F_for,
               F_while},
        a \in UNION {[1..n -> ArgTexts] : n \in 0..MaxArgs}}

\* The arguments d, z of |mod:d:z for a divisor z that is zero.
ModByZero ==
    (ArgTexts \cup {<<"1", ".", "5">>, <<"-", "7">>, <<"x">>})
    \X {<<"0">>, <<"0", ".", "0">>, <<"-", "0">>}

\* |f:a:b for the four arithmetic built-ins and integers a, b.
ArithOperands == {-7, -3, 0, 2, 5}
ArithProgram(f, a, b) == CallText(f, <<IntToStr(a), IntToStr(b)>>)

\* The second alphabet tries the lexer: strings left open, a backslash at the
\* end, access markers with and without names, stray characters.
Sources ==
    TextsOver({"|", "!", "&", ":", "-", "\"", "1", ".", "a", "\n"})
    \cup TextsOver({"\"", "\\", "@", "#", ".", "n", "$", "1"})
    \cup {AssignThenRead(l.text) : l \in Literals}
    \cup {AssignTwiceThenRead(l1.text, l2.text) : l1 \in FewLiterals, l2 \in FewLiterals}
    \cup {SumProgram(a, b) : a \in SumOperands, b \in SumOperands}
    \cup {SrcUndefined, SrcReplace, SrcLate}
    \cup Scenarios
    \cup CallPrograms
    \cup {CallText(F_mod, a) : a \in ModByZero}
    \cup {ArithProgram(f, a, b) : f \in {F_add, F_sub, F_mul, F_div},
                                  a \in ArithOperands, b \in ArithOperands}

-----------------------------------------------------------------------------
(* The state machine of interpret(source): tokenize, parse, execute, and   *)
(* the except clause.  pc is "tokenize", "parse" or "execute" inside the   *)
(* loop of that name, "while" inside the loop of _builtin_while, "raised"   *)
(* while an exception propagates, "returned" once the caller has its       *)
(* value.                                                                  *)

Pending == [t |-> "pending"]

NoPeer == [pc |-> "none"]

\* Lexer(source), and the Interpreter(tokens) and Runtime() built later,
\* as their constructors leave them.
Init ==
    /\ source \in Sources
    /\ lexpos = 0 /\ line = 1 /\ col = 1 /\ tokens = <<>>
    /\ pos = 0 /\ nodes = <<>>
    /\ ip = 0 /\ result = None
    /\ locals = <<>> /\ globals = <<>> /\ functions = <<>>
    /\ built_in_functions = [name \in BuiltinNames |-> Function(name)]
    /\ out = <<>> /\ raised = NoExc /\ ret = Pending
    /\ trace = <<>> /\ heap = <<>> /\ hist = <<>> /\ lexed = <<>>
    /\ peer = NoPeer
    /\ pc = "tokenize"

\* tokenize: one pass of `while self.pos < len(self.source)`.
Tokenize ==
    /\ pc = "tokenize" /\ lexpos < Len(source)
    /\ LET lx == TokenizeBody(source, [pos |-> lexpos, line |-> line, col |-> col, tokens |-> tokens])
       IN /\ lexpos' = lx.pos /\ line' = lx.line /\ col' = lx.col /\ tokens' = lx.tokens
    /\ UNCHANGED <<source, pos, nodes, ip, result, locals, globals, functions, built_in_functions, out, raised,
                   ret, pc, trace, heap, hist,
                   lexed, peer>>

\* tokenize: the loop is over; append EOF and return the tokens.
TokenizeReturn ==
    /\ pc = "tokenize" /\ lexpos >= Len(source)
    /\ tokens' = Append(tokens, Token("EOF", <<>>, line, col))
    /\ lexed' = Append(lexed, tokens')
    /\ pc' = "parse"
    /\ UNCHANGED <<source, lexpos, line, col, pos, nodes, ip, result, locals, globals,
                   functions, built_in_functions, out, raised, ret, trace, heap, hist, peer>>

\* parse: one pass of `while not self._is_at_end()`.
Parse ==
    /\ pc = "parse" /\ ~IsAtEnd(tokens, pos)
    /\ LET r == ParseBody(tokens, pos)
       IN IF r.raised # NoExc
          THEN /\ raised' = r.raised /\ pc' = "raised" /\ pos' = r.pos
               /\ UNCHANGED nodes
          ELSE /\ nodes' = Append(nodes, r.node) /\ pos' = r.pos
               /\ UNCHANGED <<raised, pc>>
    /\ UNCHANGED <<source, lexpos, line, col, tokens, ip, result, locals, globals, functions, built_in_functions,
                   out, ret, trace, heap, hist,
                   lexed, peer>>

\* parse: return nodes; execute(ast) begins.
ParseReturn ==
    /\ pc = "parse" /\ IsAtEnd(tokens, pos)
    /\ pc' = "execute"
    /\ UNCHANGED <<source, lexpos, line, col, tokens, pos, nodes, ip, result, locals, globals,
                   functions, built_in_functions, out, raised, ret, trace, heap, hist,
                   lexed, peer>>

\* execute keeping the first statement's value as its result.
ExecuteKeepFirst ==
    /\ pc = "execute" /\ ip < Len(nodes)
    /\ LET r == Accept(nodes[ip + 1],
                       [locals |-> locals, globals |-> globals, functions |-> functions,
                        built_in_functions |-> built_in_functions,
                        out |-> out, trace |-> trace, heap |-> heap])
       IN /\ locals' = r.rt.locals /\ globals' = r.rt.globals /\ functions' = r.rt.functions
          /\ built_in_functions' = r.rt.built_in_functions
          /\ out' = r.rt.out /\ trace' = r.rt.trace /\ heap' = r.rt.heap
          /\ IF r.raised = Hang
             THEN pc' = "while" /\ UNCHANGED <<ip, hist, result, raised>>
             ELSE /\ ip' = ip + 1
                  /\ hist' = Append(hist, [index |-> ip + 1, value |-> r.value,
                                           raised |-> r.raised, locals |-> r.rt.locals,
                                           out |-> r.rt.out, ncalls |-> Len(r.rt.trace),
                                           heap |-> r.rt.heap])
                  /\ IF r.raised # NoExc
                     THEN raised' = r.raised /\ pc' = "raised" /\ UNCHANGED result
                     ELSE result' = (IF ip = 0 THEN r.value ELSE result) /\ UNCHANGED <<raised, pc>>
    /\ UNCHANGED <<source, lexpos, line, col, tokens, pos, nodes, ret,
                   lexed, peer>>

\* execute going on to the next statement after one has failed.
ExecuteSwallow ==
    /\ pc = "execute" /\ ip < Len(nodes)
    /\ LET r == Accept(nodes[ip + 1],
                       [locals |-> locals, globals |-> globals, functions |-> functions,
                        built_in_functions |-> built_in_functions,
                        out |-> out, trace |-> trace, heap |-> heap])
       IN /\ locals' = r.rt.locals /\ globals' = r.rt.globals /\ functions' = r.rt.functions
          /\ built_in_functions' = r.rt.built_in_functions
          /\ out' = r.rt.out /\ trace' = r.rt.trace /\ heap' = r.rt.heap
          /\ IF r.raised = Hang
             THEN pc' = "while" /\ UNCHANGED <<ip, hist, result, raised>>
             ELSE /\ ip' = ip + 1
                  /\ hist' = Append(hist, [index |-> ip + 1, value |-> r.value,
                                           raised |-> r.raised, locals |-> r.rt.locals,
                                           out |-> r.rt.out, ncalls |-> Len(r.rt.trace),
                                           heap |-> r.rt.heap])
                  /\ IF r.raised # NoExc
                     THEN raised' = r.raised /\ UNCHANGED <<result, pc>>
                     ELSE result' = r.value /\ UNCHANGED <<raised, pc>>
    /\ UNCHANGED <<source, lexpos, line, col, tokens, pos, nodes, ret,
                   lexed, peer>>

\* execute: one pass of `for node in nodes: result = node.accept(self)`.
Execute ==
    /\ pc = "execute" /\ ip < Len(nodes)
    /\ LET r == Accept(nodes[ip + 1],
                       [locals |-> locals, globals |-> globals, functions |-> functions,
                        built_in_functions |-> built_in_functions,
                        out |-> out, trace |-> trace, heap |-> heap])
       IN /\ locals' = r.rt.locals /\ globals' = r.rt.globals /\ functions' = r.rt.functions
          /\ built_in_functions' = r.rt.built_in_functions
          /\ out' = r.rt.out /\ trace' = r.rt.trace /\ heap' = r.rt.heap
          /\ IF r.raised = Hang
             THEN pc' = "while" /\ UNCHANGED <<ip, hist, result, raised>>
             ELSE /\ ip' = ip + 1
                  /\ hist' = Append(hist, [index |-> ip + 1, value |-> r.value,
                                           raised |-> r.raised, locals |-> r.rt.locals,
                                           out |-> r.rt.out, ncalls |-> Len(r.rt.trace),
                                           heap |-> r.rt.heap])
                  /\ IF r.raised # NoExc
                     THEN raised' = r.raised /\ pc' = "raised" /\ UNCHANGED result
                     ELSE result' = r.value /\ UNCHANGED <<raised, pc>>
    /\ UNCHANGED <<source, lexpos, line, col, tokens, pos, nodes, ret,
                   lexed, peer>>

\* _builtin_while, entered with a true condition: one more pass of
\* `while condition_func: result = None`, which changes nothing.
WhilePass ==
    /\ pc = "while"
    /\ UNCHANGED vars

\* execute: `return result`, which interpret returns in turn.
ExecuteReturn ==
    /\ pc = "execute" /\ ip = Len(nodes)
    /\ ret' = result
    /\ pc' = "returned"
    /\ UNCHANGED <<source, lexpos, line, col, tokens, pos, nodes, ip, result, locals, globals,
                   functions, built_in_functions, out, raised, trace, heap, hist,
                   lexed, peer>>

\* interpret returning None without printing the error.
InterpretExceptQuiet ==
    /\ pc = "raised"
    /\ ret' = None
    /\ pc' = "returned"
    /\ UNCHANGED <<source, lexpos, line, col, tokens, pos, nodes, ip, result, locals, globals,
                   functions, built_in_functions, out, raised, trace, heap, hist,
                   lexed, peer>>

\* interpret: `except Exception as e: print(f"Error: {e}"); return None`.
InterpretExcept ==
    /\ pc = "raised"
    /\ out' = Append(out, MsgError \o raised.msg)
    /\ ret' = None
    /\ pc' = "returned"
    /\ UNCHANGED <<source, lexpos, line, col, tokens, pos, nodes, ip, result, locals, globals,
                   functions, built_in_functions, raised, trace, heap, hist,
                   lexed, peer>>

Next ==
    \/ Tokenize
    \/ TokenizeReturn
    \/ Parse
    \/ ParseReturn
    \/ Execute
    \/ WhilePass
    \/ ExecuteReturn
    \/ InterpretExcept

Spec == Init /\ [][Next]_vars

-----------------------------------------------------------------------------
(* execute(nodes) called directly on node trees its caller builds from the *)
(* node classes, as the tests and examples call it on parse()'s result.    *)
(* A tree built by hand can hold what parse never builds: calls and        *)
(* assignments in argument position.                                       *)

F_zz == <<"z", "z">>

LogOf(ch) == PipeNode(F_log, <<LiteralNode(StrV(<<ch>>))>>)

\* A call of at most MaxArgs argument nodes, with a statement or none
\* before it and a statement or none after it.
NodePrograms ==
    LET ArgNodes ==
            {LogOf("a"), LogOf("b"), LiteralNode(IntV(1)), VariableNode(V_y),
             AssignNode(V_y, LiteralNode(IntV(2))), PipeNode(F_zz, <<>>)}
        CallNodes ==
            {PipeNode(f, args) : f \in {F_concat, F_log, F_add, F_sub, F_zz},
                                 args \in UNION {[1..n -> ArgNodes] : n \in 0..MaxArgs}}
    IN {b \o <<c>> \o a : b \in {<<>>, <<AssignNode(V_y, LiteralNode(IntV(7)))>>},
                          c \in CallNodes,
                          a \in {<<>>, <<LogOf("c")>>, <<AssignNode(V_x, PipeNode(F_zz, <<>>))>>}}

\* A list made by for and bound to x, at most MaxStmts statements that
\* call a list built-in on x or on y, and a read of x.  y is unbound, or
\* bound to what push or unshift returned.
ListPrograms ==
    LET x == VariableNode(V_x)
        y == VariableNode(V_y)
        one == LiteralNode(IntV(1))
        two == LiteralNode(IntV(2))
        stmts == {PipeNode(ListNames.push, <<x, one>>),
                  AssignNode(V_y, PipeNode(ListNames.push, <<x, two>>)),
                  AssignNode(V_y, PipeNode(ListNames.unshift, <<x, one>>)),
                  PipeNode(ListNames.pop, <<x>>),
                  PipeNode(ListNames.pop, <<y>>),
                  PipeNode(ListNames.shift, <<y>>)}
    IN {<<AssignNode(V_x, PipeNode(F_for, <<one, two>>))>> \o body \o <<x>> :
           body \in UNION {[1..n -> stmts] : n \in 0..MaxStmts}}

\* For a string s of at most MaxSrcLen characters, three statements:
\* lowercase(uppercase(s)), lowercase(s), and the pair lowercase(uppercase())
\* applied twice to s.
CasePrograms ==
    LET LowerUpper(arg) == PipeNode(F_lowercase, <<PipeNode(F_uppercase, <<arg>>)>>)
    IN {<<LowerUpper(LiteralNode(StrV(s))),
          PipeNode(F_lowercase, <<LiteralNode(StrV(s))>>),
          LowerUpper(LowerUpper(LiteralNode(StrV(s))))>> :
           s \in UNION {[1..n -> {"a", "B", "1", "U+00DF", "U+1E9E"}] : n \in 0..MaxSrcLen}}

\* One call of if: a literal condition and at most MaxArgs branches, each a
\* call that prints a character: log(ch), which yields null, or
\* concat(ch, log(ch)), which yields ch followed by "None".
IfPrograms ==
    LET Say(ch) == PipeNode(F_concat, <<LiteralNode(StrV(<<ch>>)), LogOf(ch)>>)
        branches == {LogOf("a"), LogOf("b"), Say("a"), Say("b")}
        conds == {LiteralNode(v) : v \in {BoolV(TRUE), BoolV(FALSE), IntV(0), IntV(1),
                                          StrV(<<>>), StrV(<<"a">>), None}}
    IN {<<PipeNode(F_if, <<c>> \o bs)>> :
           c \in conds, bs \in UNION {[1..n -> branches] : n \in 1..MaxArgs}}

\* Interpreter(tokens) as constructed, and the argument of execute.
InitExec ==
    /\ source = <<>>
    /\ lexpos = 0 /\ line = 1 /\ col = 1 /\ tokens = <<>>
    /\ pos = 0
    /\ nodes \in NodePrograms \cup ListPrograms \cup CasePrograms \cup IfPrograms
    /\ ip = 0 /\ result = None
    /\ locals = <<>> /\ globals = <<>> /\ functions = <<>>
    /\ built_in_functions = [name \in BuiltinNames |-> Function(name)]
    /\ out = <<>> /\ raised = NoExc /\ ret = Pending
    /\ trace = <<>> /\ heap = <<>> /\ hist = <<>> /\ lexed = <<>>
    /\ peer = NoPeer
    /\ pc = "execute"

NextExec ==
    \/ Execute
    \/ ExecuteReturn

SpecExec == InitExec /\ [][NextExec]_vars

-----------------------------------------------------------------------------
(* A Lexer used directly, as the tests use it: Lexer(source), then          *)
(* tokenize(), which its caller may invoke again on the same object.        *)

\* The caller, holding the list the previous invocation returned, invokes
\* tokenize() again.  tokenize assigns none of pos, line, col and tokens
\* before its loop, so the Lexer is entered as the previous pass left it.
TokenizeAgain ==
    /\ pc = "parse" /\ pos = 0 /\ nodes = <<>>
    /\ Len(lexed) < MaxPasses
    /\ pc' = "tokenize"
    /\ UNCHANGED <<source, lexpos, line, col, tokens, pos, nodes, ip, result, locals, globals,
                   functions, built_in_functions, out, raised, ret, trace, heap, hist, lexed, peer>>

NextLex ==
    \/ Tokenize
    \/ TokenizeReturn
    \/ TokenizeAgain

SpecLex == Init /\ [][NextLex]_vars

-----------------------------------------------------------------------------
(* Two Interpreter instances in one process, each given a program of its   *)
(* own and each executing it statement by statement, in any interleaving.  *)
(* The first instance is the state above; the second is the record peer =  *)
(* [nodes, ip, result, runtime, raised, ret, pc].                          *)

\* Runtime(): four dicts of its own, the print stream and the call record.
NewRuntime ==
    [locals |-> <<>>, globals |-> <<>>, functions |-> <<>>,
     built_in_functions |-> [name \in BuiltinNames |-> Function(name)],
     out |-> <<>>, trace |-> <<>>, heap |-> <<>>]

\* Programs of at most MaxStmts statements out of &x:1, &x:2, !x and |zz;
\* both instances use the name x.
TwoPrograms ==
    UNION {[1..n -> {AssignNode(V_x, LiteralNode(IntV(1))),
                     AssignNode(V_x, LiteralNode(IntV(2))),
                     VariableNode(V_x),
                     PipeNode(F_zz, <<>>)}] : n \in 0..MaxStmts}

InitTwo ==
    /\ source = <<>>
    /\ lexpos = 0 /\ line = 1 /\ col = 1 /\ tokens = <<>>
    /\ pos = 0
    /\ nodes \in TwoPrograms
    /\ ip = 0 /\ result = None
    /\ locals = NewRuntime.locals /\ globals = NewRuntime.globals
    /\ functions = NewRuntime.functions
    /\ built_in_functions = NewRuntime.built_in_functions
    /\ out = <<>> /\ raised = NoExc /\ ret = Pending
    /\ trace = <<>> /\ heap = <<>> /\ hist = <<>> /\ lexed = <<>>
    /\ pc = "execute"
    /\ \E prog \in TwoPrograms :
          peer = [nodes |-> prog, ip |-> 0, result |-> None, runtime |-> NewRuntime,
                  raised |-> NoExc, ret |-> Pending, pc |-> "execute"]

\* The second instance executing on the first instance's locals, as if
\* locals were one dict of the class.
PeerExecuteShared ==
    /\ peer.pc = "execute" /\ peer.ip < Len(peer.nodes)
    /\ LET r == Accept(peer.nodes[peer.ip + 1], [peer.runtime EXCEPT !.locals = locals])
       IN /\ locals' = r.rt.locals
          /\ peer' = [peer EXCEPT !.runtime = r.rt,
                                  !.ip = @ + 1,
                                  !.result = IF r.raised = NoExc THEN r.value ELSE @,
                                  !.raised = r.raised,
                                  !.pc = IF r.raised = NoExc THEN @ ELSE "raised"]
    /\ UNCHANGED <<source, lexpos, line, col, tokens, pos, nodes, ip, result, globals,
                   functions, built_in_functions, out, raised, ret, pc, trace, heap, hist, lexed>>

\* One pass of the loop of execute in the second instance.
PeerExecute ==
    /\ peer.pc = "execute" /\ peer.ip < Len(peer.nodes)
    /\ LET r == Accept(peer.nodes[peer.ip + 1], peer.runtime)
       IN peer' = [peer EXCEPT !.runtime = r.rt,
                               !.ip = @ + 1,
                               !.result = IF r.raised = NoExc THEN r.value ELSE @,
                               !.raised = r.raised,
                               !.pc = IF r.raised = NoExc THEN @ ELSE "raised"]
    /\ UNCHANGED <<source, lexpos, line, col, tokens, pos, nodes, ip, result, locals, globals,
                   functions, built_in_functions, out, raised, ret, pc, trace, heap, hist, lexed>>

\* execute: `return result` in the second instance.
PeerExecuteReturn ==
    /\ peer.pc = "execute" /\ peer.ip = Len(peer.nodes)
    /\ peer' = [peer EXCEPT !.ret = peer.result, !.pc = "returned"]
    /\ UNCHANGED <<source, lexpos, line, col, tokens, pos, nodes, ip, result, locals, globals,
                   functions, built_in_functions, out, raised, ret, pc, trace, heap, hist, lexed>>

NextTwo ==
    \/ Execute
    \/ ExecuteReturn
    \/ PeerExecute
    \/ PeerExecuteReturn

SpecTwo == InitTwo /\ [][NextTwo]_vars

\* execute(prog) on an Interpreter of its own, after k passes of its loop.
RECURSIVE ExecuteAlone(_, _)
ExecuteAlone(prog, k) ==
    IF k = 0 THEN [runtime |-> NewRuntime, result |-> None, raised |-> NoExc]
    ELSE LET before == ExecuteAlone(prog, k - 1)
             r == Accept(prog[k], before.runtime)
         IN [runtime |-> r.rt,
             result |-> IF r.raised = NoExc THEN r.value ELSE before.result,
             raised |-> r.raised]

-----------------------------------------------------------------------------
(* Properties.                                                             *)

\* The runtime as statement k found it: as statement k - 1 left it.
RtBefore(k) ==
    IF k = 1 THEN [locals |-> <<>>, out |-> <<>>, ncalls |-> 0, heap |-> <<>>] ELSE hist[k - 1]

IsPrefix(a, b) == Len(a) <= Len(b) /\ SubSeq(b, 1, Len(a)) = a

Unregistered(name) == name \notin BuiltinNames /\ name \notin DOMAIN functions

\* C1: a variable reference used as an argument of a pipe call passes the
\* variable's bound value at that position: after &x:a, &y:b,
\* &sum:|add:!x:!y the binding sum is a+b, and &text:"hello world" then
\* |replace:!text:"world":"dotlang" has the final value "hello dotlang".
C1_VariableArguments ==
    pc = "returned" =>
        /\ \A a, b \in SumOperands :
              source = SumProgram(a, b) =>
                 raised = NoExc /\ V_sum \in DOMAIN locals /\ locals[V_sum] = IntV(a + b)
        /\ source = SrcReplace =>
              raised = NoExc
              /\ ret = StrV(<<"h", "e", "l", "l", "o", " ", "d", "o", "t", "l", "a", "n", "g">>)

\* The statement nodes[k] is, or assigns the value of, a call to a name that
\* is in neither the built-in registry nor the user function table.
CallsUnregistered(k) ==
    \/ nodes[k].kind = "Pipe" /\ Unregistered(nodes[k].func_name)
    \/ /\ nodes[k].kind = "Assign" /\ nodes[k].value.kind = "Pipe"
       /\ Unregistered(nodes[k].value.func_name)

CalledName(k) == IF nodes[k].kind = "Pipe" THEN nodes[k].func_name ELSE nodes[k].value.func_name

\* C2: executing a call to a name in neither the built-in registry nor the
\* user function table always fails with a NameError whose message carries
\* exactly the attempted name; the call yields no value (nothing is bound,
\* result is not updated).
C2_UnknownFunctionFails ==
    \A k \in 1..Len(hist) :
        CallsUnregistered(k) =>
            /\ hist[k].raised = Exc("NameError", MsgFunctionNotFound \o CalledName(k))
            /\ raised = hist[k].raised
            /\ result = (IF k = 1 THEN None ELSE hist[k - 1].value)
            /\ hist[k].locals = RtBefore(k).locals

C2_Witness ==
    /\ pc = "raised" /\ hist # <<>> /\ CallsUnregistered(Len(hist))
    /\ Len(CalledName(Len(hist))) > 1 /\ Len(hist) > 1

\* C3 as claimed: a NameError or TypeError raised during evaluation is never
\* caught, so interpret does not end by returning null as a program that
\* succeeds with null does.
C3_FailureReachesCaller ==
    (pc = "returned" /\ raised.kind \in {"NameError", "TypeError"}) => ret # None

\* C3 as amended: execute does not catch the failure (it leaves execute as
\* raised by the failing statement); interpret catches it, prints
\* "Error: <message>" and returns null.
C3_InterpretCatches ==
    /\ (hist # <<>> /\ hist[Len(hist)].raised # NoExc) =>
          raised = hist[Len(hist)].raised /\ pc \in {"raised", "returned"}
    /\ (pc = "returned" /\ raised # NoExc) =>
          ret = None /\ out # <<>> /\ out[Len(out)] = MsgError \o raised.msg

C3_Witness == pc = "returned" /\ raised.kind = "TypeError" /\ Len(hist) > 1

\* C4: for every literal v, &x:v stores v under x and a following !x
\* resolves to exactly v; after several assignments to x, !x resolves to the
\* most recently assigned value.
C4_AssignRoundTrip ==
    /\ \A l \in Literals :
          source = AssignThenRead(l.text) =>
             /\ Len(hist) >= 1 => hist[1].raised = NoExc /\ hist[1].locals = (V_x :> l.value)
             /\ pc = "returned" => raised = NoExc /\ Len(nodes) = 2 /\ ret = l.value
    /\ \A l1, l2 \in FewLiterals :
          source = AssignTwiceThenRead(l1.text, l2.text) =>
             /\ Len(hist) >= 1 => hist[1].locals = (V_x :> l1.value)
             /\ Len(hist) >= 2 => hist[2].locals = (V_x :> l2.value)
             /\ pc = "returned" => raised = NoExc /\ Len(nodes) = 3 /\ ret = l2.value

C4_Witness ==
    /\ pc = "returned"
    /\ \E l \in NegLiterals : l.value.t = "float" /\ l.value.n < 0 /\ source = AssignThenRead(l.text)

\* C5: execute runs the statements strictly in sequence order and returns
\* the value of the last statement; for no statements it returns null.
C5_ExecuteInOrder ==
    /\ Len(hist) = ip
    /\ \A k \in 1..Len(hist) : hist[k].index = k
    /\ (pc = "returned" /\ raised = NoExc) =>
          /\ Len(hist) = Len(nodes)
          /\ ret = (IF nodes = <<>> THEN None ELSE hist[Len(nodes)].value)

C5_Witness ==
    /\ pc = "returned" /\ raised = NoExc /\ Len(nodes) >= 3
    /\ hist[1].value # hist[Len(nodes)].value /\ ret = hist[Len(nodes)].value

\* C6: when statement k is the first to fail, execution aborts there:
\* every binding and output of statements 1..k-1 is still present, and no
\* statement after k is executed (none of their bindings or outputs appear).
C6_AbortKeepsEffects ==
    (hist # <<>> /\ raised # NoExc) =>
        LET k == Len(hist)
            done == IF pc = "returned" THEN SubSeq(out, 1, Len(out) - 1) ELSE out
        IN /\ ip = k /\ hist[k].raised = raised
           /\ \A j \in 1..(k - 1) : hist[j].raised = NoExc
           /\ \A name \in DOMAIN RtBefore(k).locals :
                 name \in DOMAIN locals /\ locals[name] = RtBefore(k).locals[name]
           /\ DOMAIN locals = DOMAIN RtBefore(k).locals
           /\ done = RtBefore(k).out

C6_Witness ==
    /\ pc = "returned" /\ raised # NoExc /\ Len(hist) > 1 /\ Len(hist) < Len(nodes)
    /\ DOMAIN locals # {} /\ Len(out) > 1
    /\ \E j \in (Len(hist) + 1)..Len(nodes) : nodes[j].kind = "Assign"

\* What evaluating the argument node prints: a log call of literals prints
\* one line, the other argument nodes of the model print nothing.
ArgOut(arg) ==
    IF arg.kind = "Pipe" /\ arg.func_name = F_log
    THEN <<JoinStr([i \in 1..Len(arg.args) |-> arg.args[i].value], <<" ">>)>>
    ELSE <<>>

RECURSIVE ArgsOut(_)
ArgsOut(args) == IF args = <<>> THEN <<>> ELSE ArgOut(args[1]) \o ArgsOut(Tail(args))

\* The names of the argument nodes that are calls, in source order.
RECURSIVE ArgCalls(_)
ArgCalls(args) ==
    IF args = <<>> THEN <<>>
    ELSE (IF args[1].kind = "Pipe" THEN <<args[1].func_name>> ELSE <<>>) \o ArgCalls(Tail(args))

\* Statement k is a call none of whose argument nodes fails.
CallWithSoundArgs(k) ==
    /\ nodes[k].kind = "Pipe"
    /\ \A i \in 1..Len(nodes[k].args) :
          LET a == nodes[k].args[i]
          IN /\ a.kind = "Pipe" => (a.func_name = F_log /\ \A j \in 1..Len(a.args) : a.args[j].kind = "Literal")
             /\ a.kind = "Assign" => a.value.kind = "Literal"

\* What statement k printed, and the calls it made.
OutOf(k) == SubSeq(hist[k].out, Len(RtBefore(k).out) + 1, Len(hist[k].out))
CallsOf(k) == SubSeq(trace, RtBefore(k).ncalls + 1, hist[k].ncalls)

\* C7: evaluating a call whose argument nodes are calls with side effects
\* evaluates each argument exactly once, left to right, so the side effects
\* occur in source order, all before the outer function is invoked.
C7_ArgumentsLeftToRight ==
    \A k \in 1..Len(hist) :
        (CallWithSoundArgs(k) /\ nodes[k].func_name \in BuiltinNames) =>
            LET inner == ArgCalls(nodes[k].args)
                calls == CallsOf(k)
            IN /\ Len(calls) = Len(inner) + 1
               /\ \A j \in 1..Len(inner) : calls[j].func_name = inner[j]
               /\ calls[Len(calls)].func_name = nodes[k].func_name
               /\ Len(calls[Len(calls)].args) = Len(nodes[k].args)
               /\ IsPrefix(ArgsOut(nodes[k].args), OutOf(k))
               /\ Len(OutOf(k)) <= Len(ArgsOut(nodes[k].args)) + 1

C7_Witness ==
    /\ pc = "returned" /\ Len(nodes) = 1
    /\ nodes[1] = PipeNode(F_concat, <<LogOf("b"), LogOf("a")>>)
    /\ out = <<<<"b">>, <<"a">>>>
    /\ ret = StrV(<<"N", "o", "n", "e", "N", "o", "n", "e">>)

\* C8 as claimed: a call evaluates all its argument nodes and only then
\* resolves the function name, so for an unregistered name the side effects
\* of the arguments have occurred when the NameError is raised.
C8_ArgumentsBeforeResolution ==
    \A k \in 1..Len(hist) :
        (CallWithSoundArgs(k) /\ Unregistered(nodes[k].func_name)) =>
            /\ hist[k].raised.kind = "NameError"
            /\ OutOf(k) = ArgsOut(nodes[k].args)

\* C8 as amended: a call resolves the function name first and evaluates the
\* argument nodes only afterwards, so for an unregistered name the NameError
\* is raised with no argument evaluated: nothing printed, bound or called.
C8_ResolutionBeforeArguments ==
    \A k \in 1..Len(hist) :
        (nodes[k].kind = "Pipe" /\ Unregistered(nodes[k].func_name)) =>
            /\ hist[k].raised = Exc("NameError", MsgFunctionNotFound \o nodes[k].func_name)
            /\ hist[k].out = RtBefore(k).out
            /\ hist[k].locals = RtBefore(k).locals
            /\ hist[k].ncalls = RtBefore(k).ncalls

C8_Witness ==
    /\ pc = "raised" /\ Len(hist) = 2
    /\ nodes[2] = PipeNode(F_zz, <<LogOf("a"), AssignNode(V_y, LiteralNode(IntV(2)))>>)
    /\ locals = (V_y :> IntV(7)) /\ out = <<>>

\* C9: a variable reference to an identifier that was never assigned yields
\* null, raises nothing and leaves the environment unchanged (no binding is
\* created); the program !undefinedvar has the final value null.
C9_UnboundVariableIsNull ==
    /\ \A k \in 1..Len(hist) :
          (/\ nodes[k].kind = "Variable"
           /\ nodes[k].name \notin DOMAIN RtBefore(k).locals
           /\ nodes[k].name \notin DOMAIN globals) =>
              /\ hist[k].value = None /\ hist[k].raised = NoExc
              /\ hist[k].locals = RtBefore(k).locals
              /\ hist[k].out = RtBefore(k).out
    /\ (source = SrcUndefined /\ pc = "returned") => ret = None /\ raised = NoExc /\ locals = <<>>

C9_Witness ==
    /\ source = SrcLate /\ pc = "returned"
    /\ hist[1].value = None /\ hist[1].locals = <<>> /\ ret = IntV(5)

\* C10: for every token sequence the tokenizer produces, parse returns a
\* statement sequence and never raises.
C10_ParseNeverRaises == ~(pc = "raised" /\ hist = <<>>)

\* One pass of the argument loop of _parse_pipe started at cursor p (where
\* the loop's condition holds) leaves the cursor beyond p.
ArgLoopAdvances(toks, p) ==
    (~IsAtEnd(toks, p) /\ Current(toks, p).type \notin {"PIPE", "ASSIGN", "VAR_GET", "EOF"}) =>
        IF Current(toks, p).value = <<":">> THEN TRUE ELSE ParseExpression(toks, p).pos > p

\* C11: parse terminates on every token sequence ending in EOF: every pass of
\* the top-level loop and of the call-argument loop advances the cursor by
\* at least one, so there are at most as many statements as non-EOF tokens,
\* and reading past the end of the token list yields EOF.
C11_ParseTerminates ==
    /\ [][(pc = "parse" /\ pos' # pos) =>
             /\ ~IsAtEnd(tokens, pos) /\ pos < Len(tokens)
             /\ pos' > pos
             /\ Len(nodes') <= Len(nodes) + 1]_vars
    /\ [](pc # "tokenize" =>
             /\ Len(nodes) <= pos
             /\ Len(nodes) <= Cardinality({k \in 1..Len(tokens) : tokens[k].type # "EOF"})
             /\ \A p \in 0..(Len(tokens) - 1) :
                   /\ ArgLoopAdvances(tokens, p)
                   /\ ParseBody(tokens, p).pos > p
             /\ \A p \in Len(tokens)..(Len(tokens) + 2) : IsAtEnd(tokens, p))

C11_Witness ==
    /\ pc = "execute" /\ pos > Len(tokens) /\ Len(nodes) >= 2
    /\ nodes[1].kind = "Pipe" /\ nodes[2].kind = "Assign"

HasEOF(toks) == \E k \in 1..Len(toks) : toks[k].type = "EOF"

\* C12: tokenize terminates without raising on every source text: each pass
\* of its loop advances the cursor by at least one character and stays
\* inside the text, and the sequence returned ends with an EOF token that is
\* its only EOF token; open strings, stray characters and markers without
\* names make no difference.
C12_TokenizeTerminates ==
    /\ lexpos <= Len(source)
    /\ pc = "tokenize" =>
          /\ raised = NoExc /\ ~HasEOF(tokens)
          /\ lexpos < Len(source) =>
                LET lx == TokenizeBody(source, [pos |-> lexpos, line |-> line, col |-> col,
                                                tokens |-> tokens])
                IN /\ lexpos < lx.pos /\ lx.pos <= Len(source)
                   /\ IsPrefix(tokens, lx.tokens) /\ ~HasEOF(lx.tokens)
    /\ pc # "tokenize" =>
          /\ lexpos = Len(source)
          /\ tokens # <<>> /\ tokens[Len(tokens)].type = "EOF"
          /\ ~HasEOF(SubSeq(tokens, 1, Len(tokens) - 1))

C12_Witness ==
    /\ pc = "parse" /\ source = <<"@", "\"", "\\">>
    /\ tokens = <<Token("OBJ_ACCESS", <<>>, 1, 1), Token("STRING", <<"\\">>, 1, 3),
                  Token("EOF", <<>>, 1, 4)>>

\* C13: invoking tokenize again on the same Lexer returns the same token
\* sequence as the first invocation: the same tokens in the same order,
\* ended by a single EOF token, nothing carried over or duplicated.
C13_RetokenizeSame ==
    \A k \in 1..Len(lexed) :
        /\ lexed[k] = lexed[1]
        /\ Cardinality({j \in 1..Len(lexed[k]) : lexed[k][j].type = "EOF"}) = 1

\* The statement nodes[k] is, or assigns the value of, a call to a
\* registered built-in.
CallsRegistered(k) ==
    \/ nodes[k].kind = "Pipe" /\ nodes[k].func_name \in BuiltinNames
    \/ /\ nodes[k].kind = "Assign" /\ nodes[k].value.kind = "Pipe"
       /\ nodes[k].value.func_name \in BuiltinNames

\* C14: whenever a registered built-in is invoked with an argument count or
\* argument types it cannot handle, the call fails with a TypeError that
\* carries the function name and wraps the underlying cause; no other kind
\* of failure escapes a built-in invocation.
C14_FailuresAreWrapped ==
    \A k \in 1..Len(hist) :
        (CallsRegistered(k) /\ hist[k].raised # NoExc) =>
            /\ hist[k].raised.kind = "TypeError"
            /\ IsPrefix(MsgErrorCalling \o CalledName(k) \o <<":", " ">>, hist[k].raised.msg)

\* C15: evaluation runs to completion: for every program the parser
\* produces (none calls input), execute returns a value or raises after
\* finitely many steps, calls of if, for and while on pre-computed operands
\* included: as long as control is inside execute, some step of it changes
\* the state (each such step moves ip or pc forward, so there are finitely
\* many).
C15_ExecuteTerminates ==
    pc \in {"execute", "while"} => ENABLED <<Execute \/ WhilePass \/ ExecuteReturn>>_vars

\* The quotient a / b as a float, b # 0.
Quotient(a, b) == IF b < 0 THEN FloatV(-a, -b) ELSE FloatV(a, b)

\* C16: for integers a and b, negative ones written with a leading "-", the
\* programs |add:a:b, |sub:a:b and |mul:a:b have the final values a+b, a-b
\* and a*b; |div:a:b with b # 0 has the fractional value a/b; |div:a:0 has
\* the final value 0 and raises nothing.
C16_IntegerArithmetic ==
    \A a, b \in ArithOperands :
        \A f \in {F_add, F_sub, F_mul, F_div} :
            (source = ArithProgram(f, a, b) /\ pc \notin {"tokenize", "parse"}) =>
                /\ nodes = <<PipeNode(f, <<LiteralNode(IntV(a)), LiteralNode(IntV(b))>>)>>
                /\ pc # "raised" /\ raised = NoExc
                /\ pc = "returned" =>
                      ret = CASE f = F_add -> IntV(a + b)
                              [] f = F_sub -> IntV(a - b)
                              [] f = F_mul -> IntV(a * b)
                              [] f = F_div -> IF b = 0 THEN IntV(0) ELSE Quotient(a, b)

C16_Witness ==
    /\ pc = "returned" /\ source = ArithProgram(F_div, -7, -3)
    /\ ret = FloatV(7, 3) /\ ret # IntV(2)

\* C17: degenerate arithmetic calls return 0 and do not fail: mul, max and
\* min called with no arguments each return 0, and mod with divisor 0
\* returns 0 for every dividend.
C17_DegenerateArithmetic ==
    /\ \A f \in {F_mul, F_max, F_min} :
          (source = CallText(f, <<>>) /\ pc \notin {"tokenize", "parse"}) =>
             /\ nodes = <<PipeNode(f, <<>>)>>
             /\ pc # "raised" /\ raised = NoExc
             /\ pc = "returned" => ret = IntV(0)
    /\ \A a \in ModByZero :
          (source = CallText(F_mod, a) /\ pc \notin {"tokenize", "parse"}) =>
             /\ nodes[1].func_name = F_mod /\ Len(nodes) = 1 /\ Len(nodes[1].args) = 2
             /\ pc # "raised" /\ raised = NoExc
             /\ pc = "returned" => ret = IntV(0)

C17_Witness ==
    /\ pc = "returned" /\ source = CallText(F_mod, <<<<"\"", "a", "b", "\"">>, <<"0", ".", "0">>>>)
    /\ trace = <<[func_name |-> F_mod, args |-> <<StrV(<<"a", "b">>), FloatV(0, 1)>>]>>
    /\ ret = IntV(0)

\* C18: the environment is changed only by assignment statements.  An
\* Assign statement leaves every binding but its target's as it was; a
\* Literal, Variable or Pipe statement of a parsed program leaves the whole
\* mapping as it was, whether it returns, raises or never returns.
C18_OnlyAssignMutates ==
    /\ globals = <<>>
    /\ locals = IF hist = <<>> THEN <<>> ELSE hist[Len(hist)].locals
    /\ \A k \in 1..Len(hist) :
          LET before == RtBefore(k).locals
              after == hist[k].locals
          IN IF nodes[k].kind = "Assign"
             THEN \A name \in (DOMAIN before \cup DOMAIN after) \ {nodes[k].var_name} :
                     /\ name \in DOMAIN before /\ name \in DOMAIN after
                     /\ after[name] = before[name]
             ELSE after = before

C18_Witness ==
    /\ pc = "returned"
    /\ \E k \in 1..Len(hist) :
          /\ nodes[k].kind = "Assign" /\ nodes[k].var_name = V_y
          /\ DOMAIN RtBefore(k).locals = {V_x}
          /\ DOMAIN hist[k].locals = {V_x, V_y}
          /\ hist[k].locals[V_x] = IntV(1) /\ hist[k].locals[V_y] = IntV(2)
    /\ \A kind \in {"Literal", "Variable", "Pipe"} :
          \E k \in 1..Len(hist) : nodes[k].kind = kind /\ hist[k].locals = Put(<<>>, V_x, IntV(1))

\* C19: the registry of built-in functions stays as Runtime() built it.
\* Whatever statements have run, failing ones and assignments to a registered
\* name such as add included, the registered names and the callable each
\* name maps to are those of construction, and no other function is
\* registered.
C19_RegistryFixed ==
    /\ DOMAIN built_in_functions = BuiltinNames
    /\ \A name \in BuiltinNames : built_in_functions[name] = Function(name)
    /\ functions = <<>>

\* After &add:1 and a raising statement, add is both a variable and the
\* built-in: |add:2:3 has returned 5 and !add gives 1.
C19_Witness ==
    /\ pc \in {"returned", "raised"}
    /\ \E k \in 1..Len(hist) :
          /\ nodes[k].kind = "Assign" /\ nodes[k].var_name = F_add
          /\ hist[k].raised = NoExc /\ hist[k].locals[F_add] = IntV(1)
          /\ \E j \in (k + 1)..Len(hist) :
                /\ nodes[j] = PipeNode(F_add, <<LiteralNode(IntV(2)), LiteralNode(IntV(3))>>)
                /\ hist[j].value = IntV(5)
    /\ locals[F_add] = IntV(1)
    /\ built_in_functions[F_add] = Function(F_add)

\* What a reference to name resolves to in a runtime.
Resolves(name, rt) == VisitVariable(VariableNode(name), rt).value

\* C20: two Interpreter instances share no mutable state.  In every
\* interleaving of the statements of two programs run on two instances, each
\* instance is, after each of its statements, as it is after as many
\* statements when it runs alone: every variable reference resolves to the
\* same value (an assignment by the other instance changes none), its
\* bindings and registry are the same, and the value it returns is the one
\* it returns alone.
C20_InstancesIndependent ==
    LET alone == ExecuteAlone(nodes, ip)
        peerAlone == ExecuteAlone(peer.nodes, peer.ip)
        runtime == [locals |-> locals, globals |-> globals, functions |-> functions,
                    built_in_functions |-> built_in_functions, out |-> out, trace |-> trace, heap |-> heap]
    IN /\ \A name \in {V_x, V_y} :
             /\ Resolves(name, runtime) = Resolves(name, alone.runtime)
             /\ Resolves(name, peer.runtime) = Resolves(name, peerAlone.runtime)
       /\ runtime = alone.runtime /\ result = alone.result /\ raised = alone.raised
       /\ peer.runtime = peerAlone.runtime
       /\ peer.result = peerAlone.result /\ peer.raised = peerAlone.raised
       /\ pc = "returned" => ret = ExecuteAlone(nodes, Len(nodes)).result
       /\ peer.pc = "returned" => peer.ret = ExecuteAlone(peer.nodes, Len(peer.nodes)).result

\* The second instance has assigned x and returned between the first
\* instance's assignment to x and its read of x.
C20_Witness ==
    /\ nodes = <<AssignNode(V_x, LiteralNode(IntV(1))), VariableNode(V_x)>>
    /\ peer.nodes = <<AssignNode(V_x, LiteralNode(IntV(2))), VariableNode(V_x)>>
    /\ pc = "execute" /\ ip = 1 /\ locals[V_x] = IntV(1)
    /\ peer.pc = "returned" /\ peer.ret = IntV(2)

\* The call that statement k makes on a list: the statement itself or the
\* value it assigns, when that is a call of `name` whose first argument is
\* a variable bound to a list.
ListCall(k) == IF nodes[k].kind = "Assign" THEN nodes[k].value ELSE nodes[k]

CallsOnList(k, names) ==
    /\ ListCall(k).kind = "Pipe" /\ ListCall(k).func_name \in names
    /\ ListCall(k).args[1].name \in DOMAIN RtBefore(k).locals
    /\ RtBefore(k).locals[ListCall(k).args[1].name].t = "list"

\* The list statement k is called on, its items before and after.
ListArg(k) == RtBefore(k).locals[ListCall(k).args[1].name]
ItemsBefore(k) == RtBefore(k).heap[ListArg(k).ref]
ItemsAfter(k) == hist[k].heap[ListArg(k).ref]

\* Statement k created no list and changed none but the one it was called on.
InPlace(k) ==
    /\ Len(hist[k].heap) = Len(RtBefore(k).heap)
    /\ \A r \in 1..Len(hist[k].heap) : r # ListArg(k).ref => hist[k].heap[r] = RtBefore(k).heap[r]

\* C21 as claimed: push, pop, shift and unshift each change the list passed
\* to them in place and return that same list.
C21_ListBuiltinsReturnList ==
    \A k \in 1..Len(hist) :
        CallsOnList(k, {ListNames.push, ListNames.pop, ListNames.shift, ListNames.unshift}) =>
            /\ hist[k].raised = NoExc /\ InPlace(k)
            /\ hist[k].value = ListArg(k)

\* C21 as amended: push and unshift change the list passed to them in place
\* (the new element added at the end / the front) and return that same
\* list; pop and shift change it in place (the last / the first element
\* removed) and return the removed element, or null and no change when the
\* list is empty.
C21_ListBuiltinsInPlace ==
    \A k \in 1..Len(hist) :
        /\ CallsOnList(k, {ListNames.push, ListNames.unshift}) =>
              /\ hist[k].raised = NoExc /\ InPlace(k)
              /\ hist[k].value = ListArg(k)
              /\ ItemsAfter(k) = IF ListCall(k).func_name = ListNames.push
                                 THEN Append(ItemsBefore(k), ListCall(k).args[2].value)
                                 ELSE <<ListCall(k).args[2].value>> \o ItemsBefore(k)
        /\ CallsOnList(k, {ListNames.pop, ListNames.shift}) =>
              /\ hist[k].raised = NoExc /\ InPlace(k)
              /\ IF ItemsBefore(k) = <<>>
                 THEN hist[k].value = None /\ ItemsAfter(k) = <<>>
                 ELSE IF ListCall(k).func_name = ListNames.pop
                 THEN /\ hist[k].value = ItemsBefore(k)[Len(ItemsBefore(k))]
                      /\ ItemsAfter(k) = SubSeq(ItemsBefore(k), 1, Len(ItemsBefore(k)) - 1)
                 ELSE /\ hist[k].value = ItemsBefore(k)[1]
                      /\ ItemsAfter(k) = Tail(ItemsBefore(k))

\* x = [None]; y = push(x, 2) is x itself; pop(y) has returned 2 and the
\* read of x gives the one list, [None] again.
C21_Witness ==
    /\ pc = "returned" /\ Len(nodes) = 4
    /\ nodes[2] = AssignNode(V_y, PipeNode(ListNames.push, <<VariableNode(V_x), LiteralNode(IntV(2))>>))
    /\ nodes[3] = PipeNode(ListNames.pop, <<VariableNode(V_y)>>)
    /\ locals[V_x] = ListV(1) /\ locals[V_y] = ListV(1)
    /\ hist[2].heap = <<<<None, IntV(2)>>>> /\ hist[3].value = IntV(2)
    /\ ret = ListV(1) /\ heap = <<<<None>>>>

\* Statement 1 is lowercase(uppercase(s)) for a string literal s: the
\* program is one of the lowercase/uppercase programs.
IsCaseProgram ==
    /\ Len(nodes) = 3 /\ nodes[1].kind = "Pipe" /\ nodes[1].func_name = F_lowercase
    /\ nodes[2].kind = "Pipe" /\ nodes[2].func_name = F_lowercase
    /\ nodes[2].args[1].kind = "Literal"

\* The string s of such a program.
CaseString == nodes[2].args[1].value.s

\* C22 as claimed: for all strings s, lowercase(uppercase(s)) = lowercase(s),
\* and applying the pair uppercase-then-lowercase again to that result
\* leaves it unchanged.
C22_LowerUpperAllStrings ==
    (IsCaseProgram /\ pc = "returned") =>
        /\ raised = NoExc
        /\ hist[1].value = hist[2].value
        /\ hist[3].value = hist[1].value

\* C22 as amended: for all strings s of ASCII characters,
\* lowercase(uppercase(s)) = lowercase(s), and applying the pair again to
\* that result leaves it unchanged.
C22_LowerUpperAscii ==
    (/\ IsCaseProgram /\ pc = "returned"
     /\ \A k \in 1..Len(CaseString) : CaseString[k] \notin {"U+00DF", "U+1E9E"}) =>
        /\ raised = NoExc
        /\ hist[1].value = hist[2].value
        /\ hist[3].value = hist[1].value
        /\ hist[2].value = StrV(ToLower(CaseString))

C22_Witness ==
    /\ IsCaseProgram /\ pc = "returned" /\ CaseString = <<"a", "B", "1">>
    /\ trace[1].func_name = F_uppercase /\ trace[2].args = <<StrV(<<"A", "B", "1">>)>>
    /\ hist[1].value = StrV(<<"a", "b", "1">>) /\ ret = StrV(<<"a", "b", "1">>)

\* C23: calls nest: in |add:1:|mul:2:3 the parser makes the inner call an
\* argument node of the outer call, so the program has a single top-level
\* statement, add is invoked with the result of mul as its second argument,
\* and the final value is 7.
C23_CallsNest ==
    (/\ source = <<"|", "a", "d", "d", ":", "1", ":", "|", "m", "u", "l", ":", "2", ":", "3">>
     /\ pc = "returned") =>
        /\ Len(nodes) = 1
        /\ nodes[1].kind = "Pipe" /\ nodes[1].func_name = F_add
        /\ Len(nodes[1].args) = 2 /\ nodes[1].args[2].kind = "Pipe"
        /\ nodes[1].args[2].func_name = F_mul
        /\ raised = NoExc /\ ret = IntV(7)

\* The tokens are one call whose argument run holds only string literals,
\* bare words and the punctuation symbol ":".
IsPlainCall ==
    /\ Len(tokens) >= 2 /\ tokens[1].type = "PIPE"
    /\ \A k \in 2..(Len(tokens) - 1) :
          \/ tokens[k].type \in {"STRING", "IDENT"}
          \/ tokens[k].type = "SYMBOL" /\ tokens[k].value = <<":">>

\* C24: in call parsing a token is consumed as a separator, contributing no
\* argument, if and only if it is the punctuation symbol ":": the arguments
\* of a call over string literals, bare words and ":" symbols are the
\* literals of all its tokens other than the ":" symbols, in source order; a
\* string literal whose text is ":" is passed as an argument.
C24_OnlyColonSymbolSeparates ==
    (IsPlainCall /\ pc \in {"execute", "returned", "raised"}) =>
        LET given == SelectSeq(SubSeq(tokens, 2, Len(tokens) - 1),
                               LAMBDA t : ~(t.type = "SYMBOL" /\ t.value = <<":">>))
        IN /\ Len(nodes) = 1 /\ nodes[1].kind = "Pipe"
           /\ nodes[1].args = [k \in 1..Len(given) |-> LiteralNode(StrV(given[k].value))]

\* C25: every Assign node the parser produces has as its target the text of
\* an identifier token that directly follows an assignment marker, and every
\* binding is named so: an assignment marker followed by a punctuation
\* symbol, a string or another marker (as in &:5) creates no binding named
\* after that token.
C25_AssignTargetsAreIdentifiers ==
    LET Targets == {tokens[j + 1].value : j \in {i \in 1..(Len(tokens) - 1) :
                        tokens[i].type = "ASSIGN" /\ tokens[i + 1].type = "IDENT"}}
    IN pc \in {"execute", "returned", "raised"} =>
          /\ \A k \in 1..Len(nodes) : nodes[k].kind = "Assign" => nodes[k].var_name \in Targets
          /\ DOMAIN locals \subseteq Targets

\* A branch of the shape log(ch) or concat(ch, log(ch)), ch a string literal.
IsSayingBranch(b) ==
    /\ b.kind = "Pipe" /\ b.args # <<>>
    /\ b.args[1].kind = "Literal" /\ b.args[1].value.t = "str"
    /\ \/ b.func_name = F_log /\ Len(b.args) = 1
       \/ b.func_name = F_concat /\ b.args = <<b.args[1], PipeNode(F_log, <<b.args[1]>>)>>

\* Statement k is a call of if with a literal condition and one or two such
\* branches.
IsIfOnCalls(k) ==
    /\ nodes[k].kind = "Pipe" /\ nodes[k].func_name = F_if
    /\ Len(nodes[k].args) \in {2, 3} /\ nodes[k].args[1].kind = "Literal"
    /\ \A i \in 2..Len(nodes[k].args) : IsSayingBranch(nodes[k].args[i])

\* What evaluating such a branch yields, and the calls it makes.
BranchValue(b) ==
    IF b.func_name = F_log THEN None ELSE StrV(b.args[1].value.s \o <<"N", "o", "n", "e">>)
BranchCalls(b) == IF b.func_name = F_log THEN <<F_log>> ELSE <<F_log, F_concat>>

\* C26: if is a value selector over eagerly evaluated operands: when the
\* branch arguments of an if call are calls with side effects, both are
\* evaluated, each once and in order (what each prints is printed once),
\* before if is invoked, and the result is the value of the true branch when
\* the condition is truthy and otherwise the value of the false branch, null
\* when no false branch is given.
C26_IfSelectsEagerly ==
    \A k \in 1..Len(hist) :
        IsIfOnCalls(k) =>
            LET args == nodes[k].args
                calls == CallsOf(k)
                truthy == args[1].value \notin {None, BoolV(FALSE), IntV(0), StrV(<<>>)}
                made == IF Len(args) = 2 THEN BranchCalls(args[2])
                        ELSE BranchCalls(args[2]) \o BranchCalls(args[3])
            IN /\ hist[k].raised = NoExc
               /\ OutOf(k) = [i \in 1..(Len(args) - 1) |-> args[i + 1].args[1].value.s]
               /\ [j \in 1..Len(calls) |-> calls[j].func_name] = made \o <<F_if>>
               /\ calls[Len(calls)].args =
                      <<args[1].value>> \o [i \in 1..(Len(args) - 1) |-> BranchValue(args[i + 1])]
               /\ hist[k].value = IF truthy THEN BranchValue(args[2])
                                  ELSE IF Len(args) = 3 THEN BranchValue(args[3])
                                  ELSE None

C26_Witness ==
    /\ pc = "returned" /\ Len(nodes) = 1 /\ IsIfOnCalls(1)
    /\ nodes[1].args[1] = LiteralNode(IntV(0)) /\ Len(nodes[1].args) = 3
    /\ nodes[1].args[2].func_name = F_concat /\ nodes[1].args[3].func_name = F_concat
    /\ out = <<<<"a">>, <<"b">>>>
    /\ Len(trace) = 5 /\ trace[5].func_name = F_if
    /\ ret = StrV(<<"b", "N", "o", "n", "e">>)

\* C27: in expression position a "-" symbol directly followed by a NUMBER
\* token is folded into one literal equal to the negated number, consuming
\* both tokens; a "-" not followed by a NUMBER token yields the literal -1
\* and consumes only the "-", so the following token is parsed next.  Here
\* for every program that begins with "-": the first statement is that
\* literal, the only statement when nothing follows the tokens consumed; and
\* |abs:-5 has the final value 5.
C27_MinusFolds ==
    /\ (tokens # <<>> /\ tokens[1].type = "SYMBOL" /\ tokens[1].value = <<"-">>
        /\ pc \in {"execute", "raised", "returned"}) =>
          /\ nodes # <<>>
          /\ IF tokens[2].type = "NUMBER"
             THEN /\ nodes[1].kind = "Literal" /\ nodes[1].value.t \in {"int", "float"}
                  /\ tokens[3].type = "EOF" => Len(nodes) = 1
             ELSE /\ nodes[1] = LiteralNode(IntV(-1))
                  /\ tokens[2].type = "EOF" => Len(nodes) = 1
                  /\ tokens[2].type # "EOF" => Len(nodes) >= 2
    /\ (source = <<"|", "a", "b", "s", ":", "-", "5">> /\ pc \notin {"tokenize", "parse"}) =>
          /\ nodes = <<PipeNode(F_abs, <<LiteralNode(IntV(-5))>>)>>
          /\ pc # "raised" /\ pc = "returned" => raised = NoExc /\ ret = IntV(5)

\* The program has no call and its last token is a bare word that is not
\* the name after an assignment or variable-read marker.
EndsInBareWord ==
    LET n == Len(tokens) - 1
    IN /\ n >= 1 /\ tokens[n].type = "IDENT"
       /\ n >= 2 => tokens[n - 1].type \notin {"ASSIGN", "VAR_GET"}
       /\ \A k \in 1..n : tokens[k].type # "PIPE"

\* C28: a bare word in expression position evaluates to its own text as a
\* string, whatever the environment binds under that name; only the exact
\* lower-case words true, false and null are reserved and evaluate to the
\* booleans and null, any other spelling such as True or NULL being a
\* bare-word string.
C28_BareWordsAreStrings ==
    LET Reserved == {<<"t", "r", "u", "e">>, <<"f", "a", "l", "s", "e">>, <<"n", "u", "l", "l">>}
        Word(w, v) == (source = w /\ pc = "returned") => (raised = NoExc /\ ret = v)
    IN /\ \A k \in 1..Len(tokens) :
             /\ tokens[k].type = "KEYWORD" => tokens[k].value \in Reserved
             /\ tokens[k].type = "IDENT" => tokens[k].value \notin Reserved
       /\ (EndsInBareWord /\ pc = "returned" /\ raised = NoExc) =>
             ret = StrV(tokens[Len(tokens) - 1].value)
       /\ Word(<<"t", "r", "u", "e">>, BoolV(TRUE))
       /\ Word(<<"f", "a", "l", "s", "e">>, BoolV(FALSE))
       /\ Word(<<"n", "u", "l", "l">>, None)
       /\ Word(<<"T", "r", "u", "e">>, StrV(<<"T", "r", "u", "e">>))
       /\ Word(<<"F", "a", "l", "s", "e">>, StrV(<<"F", "a", "l", "s", "e">>))
       /\ Word(<<"N", "U", "L", "L">>, StrV(<<"N", "U", "L", "L">>))

C28_Witness ==
    /\ pc = "returned" /\ source = <<"&", "a", ":", "1", "\n", "a">>
    /\ locals = (<<"a">> :> IntV(1)) /\ nodes[2] = LiteralNode(StrV(<<"a">>))
    /\ ret = StrV(<<"a">>)

\* The statements before statement k that assign to name.
AssignsBefore(k, name) ==
    {j \in 1..(k - 1) : nodes[j].kind = "Assign" /\ nodes[j].var_name = name}

\* C29: during any execution the globals mapping and the user function
\* table are never written and stay empty, so a variable reference resolves
\* only through the assignments this evaluator has executed (to the value of
\* the latest assignment to the name, null when there is none), and a call to
\* a name outside the built-in registry fails with NameError in every
\* reachable state, whatever has been assigned.
C29_OneNamespace ==
    /\ globals = <<>> /\ functions = <<>>
    /\ \A k \in 1..Len(hist) :
          /\ nodes[k].kind = "Variable" =>
                LET made == AssignsBefore(k, nodes[k].name)
                IN /\ hist[k].raised = NoExc
                   /\ hist[k].value =
                         IF made = {} THEN None
                         ELSE hist[CHOOSE j \in made : \A i \in made : i <= j].value
          /\ (nodes[k].kind = "Pipe" /\ nodes[k].func_name \notin BuiltinNames) =>
                /\ hist[k].raised.kind = "NameError"
                /\ k = Len(hist) /\ pc \in {"raised", "returned"}

C29_Witness ==
    /\ pc = "returned" /\ Len(hist) = 3 /\ raised.kind = "NameError"
    /\ nodes = <<AssignNode(F_zz, LiteralNode(IntV(1))), VariableNode(F_zz),
                 PipeNode(F_zz, <<LiteralNode(IntV(1))>>)>>
    /\ hist[2].value = IntV(1) /\ hist[3].raised.kind = "NameError"
    /\ locals = (F_zz :> IntV(1)) /\ globals = <<>> /\ functions = <<>>

\* 1 plus the number of newline characters among the first p characters of
\* the source.
LineAt(p) == 1 + Cardinality({i \in 1..p : source[i] = "\n"})

\* C30: every token's recorded line number equals 1 plus the number of
\* newline characters that precede the token's first character in the source
\* text, also when a newline occurs inside a string literal before the
\* token.  A pass of the tokenize loop starts its tokens at the first
\* character after the whitespace at the cursor; the EOF token stands at the
\* end of the text.
C30_LineCountsNewlines ==
    [][/\ (pc = "tokenize" /\ lexpos < Len(source)) =>
             \A k \in (Len(tokens) + 1)..Len(tokens') :
                 tokens'[k].line = LineAt(RunEnd(source, lexpos, Space))
       /\ (pc = "tokenize" /\ pc' = "parse") =>
             tokens'[Len(tokens')].line = LineAt(Len(source))]_vars

====
